---- MODULE Spec2Model ----
(***************************************************************************)
(* Dice Card Roguelike (src/main.py): the combat scene's turn and          *)
(* pending-selection state machine, the card-effect resolver and the       *)
(* shop / upgrade economy, as one state machine.  Every handler of the     *)
(* program is one action.  Random draws (random.randint, random.random,    *)
(* random.shuffle, random.choice) are nondeterministic choices; the        *)
(* natural dice roll, the enemy intent, the shuffles and the shop offers   *)
(* are drawn from small fixed sets of outcomes.                            *)
(***************************************************************************)
EXTENDS Integers, Sequences, FiniteSets, TLC

VARIABLES
    deck_blueprint,   \* GameState.deck_blueprint: sequence of card keys
    gold,             \* GameState.gold
    scene,            \* the current scene: "main", "shop" or "upgrade"
    game_over,        \* DiceCardScene.game_over
    player_hp, player_block, enemy_hp, enemy_block,
    enemy_intent,     \* [type |-> "attack" | "block", value |-> n]
    turn_count,
    dice,             \* 0..4 -> [value |-> 1..6, frozen |-> n]
    cards,            \* the card instances built by reset_combat: instance id -> key
    hand, draw_pile, discard_pile,   \* sequences of instance ids (top of a pile = end)
    pending_card,     \* None or [card, required, selected, allow_multi_select]
    cards_for_sale,   \* ShopScene.cards_for_sale: sequence of [card_key, price, sold]
    options,          \* UpgradeScene.options: sequence of base keys
    has_upgraded,     \* UpgradeScene.has_upgraded
    continue_enabled, \* UpgradeScene.continue_button.enabled
    plays,            \* cards resolved since the latest reset_combat
    last              \* what the latest handler did: [amount, logs]

vars == << deck_blueprint, gold, scene, game_over, player_hp, player_block, enemy_hp,
           enemy_block, enemy_intent, turn_count, dice, cards, hand, draw_pile,
           discard_pile, pending_card, cards_for_sale, options, has_upgraded,
           continue_enabled, plays, last >>

combat_vars == << game_over, player_hp, player_block, enemy_hp, enemy_block, enemy_intent,
                  turn_count, dice, cards, hand, draw_pile, discard_pile, pending_card,
                  plays >>

economy_vars == << deck_blueprint, gold >>

flow_vars == << cards_for_sale, options, has_upgraded, continue_enabled >>

-----------------------------------------------------------------------------
(* Program constants *)

HAND_LIMIT == 4
PLAYER_MAX_HP == 40
ENEMY_MAX_HP == 50
CARD_PRICE == 5
INITIAL_GOLD == 10
NUM_DICE == 5
MIN_REWARD == 5
MAX_REWARD == 8

\* pending_card when no selection is pending (no card instance has id 0)
None == [card |-> 0, required |-> 0, selected |-> <<>>, allow_multi_select |-> FALSE]

DieIndex == 0 .. (NUM_DICE - 1)
Faces == 1 .. 6

(* Bounds of the model *)

MaxPlays == 1       \* cards resolved per combat
ClickDice == 2      \* die clicks are delivered for dice 0 .. ClickDice - 1
MaxGold == 0        \* once a reward is collected, cards are played and turns ended
                    \* only while gold <= MaxGold

\* Spec: the combat with its card plays, over few turns
MaxTurn == 2        \* end_turn is taken only while turn_count <= MaxTurn
MaxDeck == 40       \* purchases are made only while len(deck_blueprint) < MaxDeck
MaxEarned == 0      \* cards are played and turns ended only while the rewards
                    \* collected so far sum to at most MaxEarned

\* SpecTurns: the combat over many turns, cards played in the first turns only
LongMaxTurn == 4    \* MaxTurn of SpecTurns
LongPlayTurn == 2   \* cards are played only while turn_count <= LongPlayTurn

\* SpecEconomy: several combats, shop visits and upgrades
ShopMaxTurn == 0    \* MaxTurn of SpecEconomy
ShopMaxDeck == 44   \* MaxDeck of SpecEconomy
ShopMaxEarned == 8  \* MaxEarned of SpecEconomy

\* SpecLate: one combat and the visit that follows it, late in a run
LateEarned == 105   \* the rewards collected before that combat

\* SpecDraw: a combat without card plays, long enough for the draw pile to run out
DrawMaxTurn == 9    \* MaxTurn of SpecDraw

\* what a specification explores: turns ended, turns in which cards are played, deck
\* size reached by purchases, rewards collected, gold held once a reward is collected
Scope(turns, play_turns, deck, earned, wealth) ==
    [turns |-> turns, play_turns |-> play_turns, deck |-> deck, earned |-> earned,
     wealth |-> wealth]

Min(a, b) == IF a <= b THEN a ELSE b
Max(a, b) == IF a >= b THEN a ELSE b

Range(s) == { s[i] : i \in DOMAIN s }

-----------------------------------------------------------------------------
(* Card catalog.  card_library.json is not part of the sources; the table  *)
(* is the one the effect resolver and the specification's effect table     *)
(* describe: the key of a card is its effect id.                           *)

BaseKeys == { "reroll", "odd_attack", "even_shield", "clone", "mirror", "stasis", "tinker",
              "strike", "fortify", "strafe", "pair_shot", "one_shot", "double_guard" }

UpgradableKeys == { "reroll", "tinker", "strike", "fortify", "pair_shot", "one_shot",
                    "double_guard" }

PlusKey(key) ==
    CASE key = "reroll"       -> "reroll_plus"
      [] key = "tinker"       -> "tinker_plus"
      [] key = "strike"       -> "strike_plus"
      [] key = "fortify"      -> "fortify_plus"
      [] key = "pair_shot"    -> "pair_shot_plus"
      [] key = "one_shot"     -> "one_shot_plus"
      [] key = "double_guard" -> "double_guard_plus"
      [] OTHER                -> "unknown_plus"

CARD_LIBRARY == BaseKeys \cup { PlusKey(k) : k \in UpgradableKeys }

MultiSelectKeys == { "mirror", "stasis", "tinker", "tinker_plus", "reroll", "reroll_plus" }

CardTargets(key) ==
    IF key = "clone" THEN 2
    ELSE IF key \in MultiSelectKeys THEN 1
    ELSE 0

CardAllowMulti(key) == key \in MultiSelectKeys

CardEffect(key) == key

INITIAL_DECK_BLUEPRINT ==
    << "reroll", "reroll", "reroll",
       "odd_attack", "odd_attack", "odd_attack",
       "even_shield", "even_shield", "even_shield",
       "clone", "clone", "clone",
       "mirror", "mirror", "mirror",
       "stasis", "stasis", "stasis",
       "tinker", "tinker", "tinker",
       "strike", "strike", "strike",
       "fortify", "fortify", "fortify",
       "strafe", "strafe", "strafe",
       "pair_shot", "pair_shot", "pair_shot",
       "one_shot", "one_shot", "one_shot",
       "double_guard", "double_guard", "double_guard" >>

-----------------------------------------------------------------------------
(* The random source.  Each table lists outcomes the random call can       *)
(* produce; the model draws from these outcomes only.                      *)

RollTable == << <<5, 4, 3, 2, 1>>, <<6, 1, 1, 2, 4>> >>

\* the faces random.randint(1, 6) gives the five dice in natural roll number k
RollRow(k) == [i \in DieIndex |-> RollTable[k][i + 1]]

RollRows == { RollRow(k) : k \in DOMAIN RollTable }

\* roll_enemy_intent: attack 6..10 (roll < 0.7) or block 4..8
Intents == { [type |-> "attack", value |-> 10], [type |-> "block", value |-> 4] }

IndexSeq(n) == [i \in 1 .. n |-> i]

\* the sequence s dealt in four rounds: its entries 1, 5, ..; then 2, 6, ..; then
\* 3, 7, ..; then 4, 8, ..
Interleave(s) ==
    LET n == Len(s)
        c1 == (n + 3) \div 4
        c2 == (n + 2) \div 4
        c3 == (n + 1) \div 4
        perm(j) == IF j <= c1 THEN 4 * j - 3
                   ELSE IF j <= c1 + c2 THEN 4 * (j - c1) - 2
                   ELSE IF j <= c1 + c2 + c3 THEN 4 * (j - c1 - c2) - 1
                   ELSE 4 * (j - c1 - c2 - c3)
    IN [j \in 1 .. n |-> s[perm(j)]]

Reverse(s) == [j \in 1 .. Len(s) |-> s[Len(s) + 1 - j]]

\* random.shuffle: permutation number k of the sequence s
Shuffle(s, k) == IF k = 0 THEN Interleave(s) ELSE Reverse(Interleave(s))

ShuffleChoices == {0, 1}

\* generate_cards: the first three keys of the shuffled catalog
Offers == { << "reroll_plus", "tinker_plus", "strike" >> }

Rewards == {MIN_REWARD, MAX_REWARD}

-----------------------------------------------------------------------------
(* Dice *)

DiceValues(d) == [i \in DieIndex |-> d[i].value]

RECURSIVE SumOver(_, _, _)
\* sum of the values of dice i.. whose value is in keep
SumOver(d, i, keep) ==
    IF i >= NUM_DICE THEN 0
    ELSE (IF d[i].value \in keep THEN d[i].value ELSE 0) + SumOver(d, i + 1, keep)

DiceSum(d) == SumOver(d, 0, Faces)
OddSum(d) == SumOver(d, 0, { v \in Faces : v % 2 = 1 })
EvenSum(d) == SumOver(d, 0, { v \in Faces : v % 2 = 0 })

CountFace(d, f) == Cardinality({ i \in DieIndex : d[i].value = f })

ValueSet(d) == { d[i].value : i \in DieIndex }

\* variant: pair_shot asks for three dice of a kind
HasTriple(d) == \E f \in Faces : CountFace(d, f) >= 3

HasPair(d) == \E f \in Faces : CountFace(d, f) >= 2

BigStraights == { {1, 2, 3, 4, 5}, {2, 3, 4, 5, 6} }
SmallStraights == { {1, 2, 3, 4}, {2, 3, 4, 5}, {3, 4, 5, 6} }

\* variant: strafe pays for a big straight only
StrafeDamageBigOnly(d) ==
    IF \E st \in BigStraights : st \subseteq ValueSet(d) THEN 60 ELSE 0

\* variant: strafe looks for a small straight first
StrafeDamageSmallFirst(d) ==
    IF \E st \in SmallStraights : st \subseteq ValueSet(d) THEN 30
    ELSE IF \E st \in BigStraights : st \subseteq ValueSet(d) THEN 60
    ELSE 0

\* the damage of strafe (resolve_card_effect, "strafe" branch)
StrafeDamage(d) ==
    IF \E st \in BigStraights : st \subseteq ValueSet(d) THEN 60
    ELSE IF \E st \in SmallStraights : st \subseteq ValueSet(d) THEN 30
    ELSE 0

\* variant: the natural roll rerolls frozen dice too
roll_dice_ignoring_freeze(d, initial, faces) ==
    [i \in DieIndex |->
        [value |-> faces[i], frozen |-> IF initial THEN 0 ELSE Max(0, d[i].frozen - 1)]]

\* roll_dice: faces[i] is the random face of die i
roll_dice(d, initial, faces) ==
    [i \in DieIndex |->
        IF d[i].frozen > 0 /\ ~initial
        THEN [value |-> d[i].value, frozen |-> d[i].frozen - 1]
        ELSE [value |-> faces[i], frozen |-> IF initial THEN 0 ELSE d[i].frozen]]

-----------------------------------------------------------------------------
(* Effect resolver.  A board is [dice, player_block, enemy_hp, enemy_block, *)
(* amount, logs]: amount is the amount handed to deal_damage (-1 when it    *)
(* is not called), logs the number of add_log calls.                        *)

Board(d, pb, eh, eb) ==
    [dice |-> d, player_block |-> pb, enemy_hp |-> eh, enemy_block |-> eb,
     amount |-> -1, logs |-> 0]

CurrentBoard == Board(dice, player_block, enemy_hp, enemy_block)

\* variant: the damage goes to HP in full and the block absorbs nothing
deal_damage_past_block(b, amount) ==
    IF amount <= 0
    THEN [b EXCEPT !.amount = amount, !.logs = @ + 1]
    ELSE [b EXCEPT !.enemy_hp = @ - amount, !.amount = amount, !.logs = @ + 1]

\* deal_damage(amount): block absorbs first, the rest goes to HP
deal_damage(b, amount) ==
    IF amount <= 0
    THEN [b EXCEPT !.amount = amount, !.logs = @ + 1]
    ELSE LET blocked == Min(amount, b.enemy_block)
         IN [b EXCEPT !.enemy_block = @ - blocked,
                      !.enemy_hp = @ - (amount - blocked),
                      !.amount = amount,
                      !.logs = @ + 1]

gain_block(b, block) == [b EXCEPT !.player_block = @ + block, !.logs = @ + 1]

\* variant: tinker without the "if old < 6" guard
tinker_value_unguarded(old) == old + 1

tinker_value(old) == IF old < 6 THEN old + 1 ELSE old

\* variant: tinker_plus without the cap at 6
tinker_plus_uncapped(old) == old + 2

tinker_plus_value(old) == Min(6, old + 2)

mirror_value(old) == 7 - old

stasis_frozen(frozen) == Max(frozen, 1)

\* the die after one iteration of a per-die effect; roll is that iteration's random draw
DieAfter(effect, die, roll) ==
    CASE effect = "mirror"      -> [die EXCEPT !.value = mirror_value(@)]
      [] effect = "stasis"      -> [die EXCEPT !.frozen = stasis_frozen(@)]
      [] effect = "tinker"      -> [die EXCEPT !.value = tinker_value(@)]
      [] effect = "tinker_plus" -> [die EXCEPT !.value = tinker_plus_value(@)]
      [] effect = "reroll"      -> [die EXCEPT !.value = roll[1]]
      [] effect = "reroll_plus" -> [die EXCEPT !.value = Max(roll[1], roll[2])]
      [] OTHER                  -> die

RECURSIVE ApplyEach(_, _, _, _, _)
\* "for idx in selection": iterations j.. of the loop over the selected indices
ApplyEach(effect, d, selection, rolls, j) ==
    IF j > Len(selection) THEN d
    ELSE LET idx == selection[j]
         IN ApplyEach(effect, [d EXCEPT ![idx] = DieAfter(effect, d[idx], rolls[j])],
                      selection, rolls, j + 1)

PerDieEffects == { "mirror", "stasis", "tinker", "tinker_plus", "reroll", "reroll_plus" }

\* the faces random.randint(1, 6) gives a rerolled die
RerollFaces == {1, 6}

\* the random draws a resolution of `effect` over `selection` consumes
RollInputs(effect, selection) ==
    IF effect = "reroll" /\ selection # <<>>
    THEN [1 .. Len(selection) -> RerollFaces \X {1}]
    ELSE IF effect = "reroll_plus" /\ selection # <<>>
    THEN [1 .. Len(selection) -> RerollFaces \X RerollFaces]
    ELSE { [j \in 1 .. Len(selection) |-> <<1, 1>>] }

one_shot_damage(d, per_die) == CountFace(d, 1) * per_die

\* variant: double_guard pays once however many dice show 2
double_guard_block_once(d, per_die) == IF CountFace(d, 2) > 0 THEN per_die ELSE 0

double_guard_block(d, per_die) == CountFace(d, 2) * per_die

\* variant: an effect that fails to resolve puts the first die back to 1
effect_failed_resetting_die(b) == [b EXCEPT !.dice[0].value = 1, !.logs = @ + 1]

\* the else branch: add_log("The card effect failed to resolve.")
effect_failed(b) == [b EXCEPT !.logs = @ + 1]

resolve_card_effect(b, effect, selection, rolls) ==
    LET d == b.dice
        log(n) == [b EXCEPT !.logs = @ + n]
    IN
    CASE effect = "clone" /\ Len(selection) >= 2 ->
            [log(1) EXCEPT !.dice[selection[2]].value = d[selection[1]].value]
      [] effect \in PerDieEffects /\ selection # <<>> ->
            [log(Len(selection)) EXCEPT !.dice = ApplyEach(effect, d, selection, rolls, 1)]
      [] effect = "odd_attack"  -> deal_damage(b, OddSum(d))
      [] effect = "even_shield" -> gain_block(b, EvenSum(d))
      [] effect = "strafe"      -> deal_damage(log(1), StrafeDamage(d))
      [] effect = "strike"      -> deal_damage(log(1), DiceSum(d))
      [] effect = "strike_plus" -> deal_damage(log(1), DiceSum(d) + 6)
      [] effect = "fortify"     -> gain_block(b, DiceSum(d))
      [] effect = "fortify_plus" -> gain_block(b, DiceSum(d) + 6)
      [] effect = "pair_shot"   -> IF HasPair(d) THEN deal_damage(log(1), 15) ELSE log(1)
      [] effect = "pair_shot_plus" -> IF HasPair(d) THEN deal_damage(log(1), 25) ELSE log(1)
      [] effect = "one_shot"    -> deal_damage(log(1), one_shot_damage(d, 15))
      [] effect = "one_shot_plus" -> deal_damage(log(1), one_shot_damage(d, 20))
      [] effect = "double_guard" ->
            IF double_guard_block(d, 10) > 0
            THEN gain_block(b, double_guard_block(d, 10)) ELSE log(1)
      [] effect = "double_guard_plus" ->
            IF double_guard_block(d, 12) > 0
            THEN gain_block(b, double_guard_block(d, 12)) ELSE log(1)
      [] OTHER -> effect_failed(b)

-----------------------------------------------------------------------------
(* Piles.  A pile state is [draw, discard, hand, logs].                     *)

\* variant: the discard pile is never shuffled back
reshuffle_discard_never(p, k) == p

\* reshuffle_discard: the shuffled discard pile goes on top of the draw pile
reshuffle_discard(p, k) ==
    IF p.discard = <<>> THEN p
    ELSE [p EXCEPT !.draw = @ \o Shuffle(p.discard, k), !.discard = <<>>, !.logs = @ + 1]

RECURSIVE draw_cards(_, _, _)
\* draw_cards(count): k is the permutation a reshuffle draws
draw_cards(p, count, k) ==
    IF count = 0 THEN p
    ELSE LET q == IF p.draw = <<>> THEN reshuffle_discard(p, k) ELSE p
         IN IF q.draw = <<>> THEN q
            ELSE draw_cards([q EXCEPT !.draw = SubSeq(@, 1, Len(@) - 1),
                                      !.hand = Append(@, q.draw[Len(q.draw)])],
                            count - 1, k)

\* variant: the leftmost card leaves the hand, whichever card was dragged
RemoveFirstCard(h, c) == Tail(h)

\* the hand without card instance c ("if card is widget.card: self.hand.pop(idx)")
RemoveCard(h, c) == SelectSeq(h, LAMBDA x : x # c)

-----------------------------------------------------------------------------
(* Initial state: DiceCardScene.initOnce, which ends in                     *)
(* reset_combat(initial=True).                                              *)

Did(amount, logs) == [amount |-> amount, logs |-> logs]

NewDice == [i \in DieIndex |-> [value |-> 1, frozen |-> 0]]

\* the piles reset_combat builds from a blueprint of n cards: shuffle, then draw
reset_piles(n, k) ==
    draw_cards([draw |-> Shuffle(IndexSeq(n), k), discard |-> <<>>, hand |-> <<>>,
                logs |-> 0], HAND_LIMIT, k)

\* reset_piles for every deck size and permutation the specifications reach
ResetPiles ==
    [n \in Len(INITIAL_DECK_BLUEPRINT) .. Max(MaxDeck, ShopMaxDeck), k \in ShuffleChoices |->
        reset_piles(n, k)]

\* variant: reset_combat leaves the pending selection in place
reset_combat_keeping_pending ==
    /\ game_over' = FALSE
    /\ player_hp' = PLAYER_MAX_HP
    /\ player_block' = 0
    /\ enemy_hp' = ENEMY_MAX_HP
    /\ enemy_block' = 0
    /\ turn_count' = 1
    /\ pending_card' = pending_card
    /\ cards' = deck_blueprint
    /\ plays' = 0
    /\ last' = Did(-1, 1)
    /\ \E k \in ShuffleChoices :
          LET p == ResetPiles[Len(deck_blueprint), k]
          IN /\ hand' = p.hand
             /\ draw_pile' = p.draw
             /\ discard_pile' = p.discard
    /\ \E faces \in RollRows :
          dice' = roll_dice([i \in DieIndex |-> [dice[i] EXCEPT !.frozen = 0]], TRUE, faces)
    /\ \E intent \in Intents : enemy_intent' = intent

\* reset_combat
reset_combat ==
    /\ game_over' = FALSE
    /\ player_hp' = PLAYER_MAX_HP
    /\ player_block' = 0
    /\ enemy_hp' = ENEMY_MAX_HP
    /\ enemy_block' = 0
    /\ turn_count' = 1
    /\ pending_card' = None
    /\ cards' = deck_blueprint
    /\ plays' = 0
    /\ last' = Did(-1, 1)
    /\ \E k \in ShuffleChoices :
          LET p == ResetPiles[Len(deck_blueprint), k]
          IN /\ hand' = p.hand
             /\ draw_pile' = p.draw
             /\ discard_pile' = p.discard
    /\ \E faces \in RollRows :
          dice' = roll_dice([i \in DieIndex |-> [dice[i] EXCEPT !.frozen = 0]], TRUE, faces)
    /\ \E intent \in Intents : enemy_intent' = intent

\* the state initOnce leaves when the first natural roll is one of `rolls`
InitRolling(rolls) ==
    /\ deck_blueprint = INITIAL_DECK_BLUEPRINT
    /\ gold = INITIAL_GOLD
    /\ scene = "main"
    /\ cards_for_sale = <<>>
    /\ options = <<>>
    /\ has_upgraded = FALSE
    /\ continue_enabled = FALSE
    /\ last = Did(-1, 0)
    /\ plays = 0
    /\ game_over = FALSE
    /\ player_hp = PLAYER_MAX_HP
    /\ player_block = 0
    /\ enemy_hp = ENEMY_MAX_HP
    /\ enemy_block = 0
    /\ turn_count = 1
    /\ pending_card = None
    /\ cards = INITIAL_DECK_BLUEPRINT
    /\ discard_pile = <<>>
    /\ \E k \in ShuffleChoices :
          LET p == ResetPiles[Len(INITIAL_DECK_BLUEPRINT), k]
          IN /\ hand = p.hand
             /\ draw_pile = p.draw
    /\ \E faces \in rolls : dice = roll_dice(NewDice, TRUE, faces)
    /\ \E intent \in Intents : enemy_intent = intent

Init == InitRolling(RollRows)

\* the first natural roll is any assignment of the five dice
InitAnyRoll == InitRolling([DieIndex -> Faces])

-----------------------------------------------------------------------------
(* Victory, defeat and the scene switch *)

\* generate_options: the distinct blueprint keys that have a "<key>_plus" catalog entry
upgradable_keys(bp) ==
    LET keep(i) == /\ PlusKey(bp[i]) \in CARD_LIBRARY
                   /\ \A j \in 1 .. (i - 1) : bp[j] # bp[i]
        idx == SelectSeq(IndexSeq(Len(bp)), keep)
    IN [j \in 1 .. Len(idx) |-> bp[idx[j]]]

\* variant: the options are the first three entries of the shuffled blueprint
generate_options_unfiltered(bp, k) ==
    SubSeq(Shuffle(bp, k), 1, Min(3, Len(bp)))

generate_options(bp, k) ==
    LET shuffled == Shuffle(upgradable_keys(bp), k)
    IN SubSeq(shuffled, 1, Min(3, Len(shuffled)))

\* variant: the continue button stays disabled when nothing can be upgraded
open_upgrade_locked(k) ==
    /\ has_upgraded' = FALSE
    /\ options' = generate_options(deck_blueprint, k)
    /\ continue_enabled' = FALSE
    /\ UNCHANGED cards_for_sale

\* queue_open / _open_upgrade
open_upgrade(k) ==
    /\ has_upgraded' = FALSE
    /\ options' = generate_options(deck_blueprint, k)
    /\ continue_enabled' = (upgradable_keys(deck_blueprint) = <<>>)
    /\ UNCHANGED cards_for_sale

\* queue_reward / _open_shop / generate_cards
open_shop(offer) ==
    /\ cards_for_sale' = [i \in 1 .. Len(offer) |->
                             [card_key |-> offer[i], price |-> CARD_PRICE, sold |-> FALSE]]
    /\ UNCHANGED << options, has_upgraded, continue_enabled >>

\* variant: on_victory without the game_over guard
on_victory_unguarded(amount, logs) ==
    /\ game_over' = TRUE
    /\ \E reward \in Rewards : gold' = gold + reward
    /\ last' = Did(amount, logs + 1)
    /\ \/ /\ scene' = "shop"
          /\ \E offer \in Offers : open_shop(offer)
       \/ /\ scene' = "upgrade"
          /\ \E k \in ShuffleChoices : open_upgrade(k)

\* on_victory, reached with `amount` dealt and `logs` lines logged so far by the handler
on_victory(amount, logs) ==
    IF game_over
    THEN /\ UNCHANGED << game_over, gold, scene, flow_vars >>
         /\ last' = Did(amount, logs)
    ELSE /\ game_over' = TRUE
         /\ \E reward \in Rewards : gold' = gold + reward
         /\ last' = Did(amount, logs + 1)
         /\ \/ /\ scene' = "shop"
               /\ \E offer \in Offers : open_shop(offer)
            \/ /\ scene' = "upgrade"
               /\ \E k \in ShuffleChoices : open_upgrade(k)

\* variant: the kill is noticed only at exactly 0 HP
enemy_defeated_exactly(b) == b.enemy_hp = 0

\* "if self.enemy_hp <= 0" of finalize_card_resolution
enemy_defeated(b) == b.enemy_hp <= 0

\* finalize_card_resolution after the effect left board b, hand h and discard pile dp
finalize_card_resolution(b, h, dp) ==
    /\ dice' = b.dice
    /\ player_block' = b.player_block
    /\ enemy_hp' = b.enemy_hp
    /\ enemy_block' = b.enemy_block
    /\ hand' = h
    /\ discard_pile' = dp
    /\ pending_card' = None
    /\ UNCHANGED << player_hp, enemy_intent, turn_count, cards, draw_pile, deck_blueprint >>
    /\ IF enemy_defeated(b)
       THEN on_victory(b.amount, b.logs)
       ELSE /\ UNCHANGED << game_over, gold, scene, flow_vars >>
            /\ last' = Did(b.amount, b.logs)

\* a handler that returns without touching the state
Refused(logs) ==
    /\ UNCHANGED << combat_vars, economy_vars, scene, flow_vars >>
    /\ last' = Did(-1, logs)

-----------------------------------------------------------------------------
(* Combat scene handlers *)

\* the gold collected in rewards so far: the gold held and the gold spent on cards
Earned ==
    gold + CARD_PRICE * (Len(deck_blueprint) - Len(INITIAL_DECK_BLUEPRINT)) - INITIAL_GOLD

\* the economies in which the combat is explored
WithinEconomy(b) == Earned <= b.earned /\ (Earned = 0 \/ gold <= b.wealth)

\* variant: the selection starts with the first die already chosen
PendingCardPreselected(c) ==
    [card |-> c, required |-> CardTargets(cards[c]), selected |-> <<0>>,
     allow_multi_select |-> CardAllowMulti(cards[c])]

\* PendingCard(card, card.targets, card.allow_multi_select)
PendingCard(c) ==
    [card |-> c, required |-> CardTargets(cards[c]), selected |-> <<>>,
     allow_multi_select |-> CardAllowMulti(cards[c])]

InSeq(x, s) == \E j \in DOMAIN s : s[j] = x

\* variant: add_target appends in multi-select mode too
add_target_appending(pending, die_index) ==
    [pending EXCEPT !.selected = Append(@, die_index)]

\* PendingCard.add_target
add_target(pending, die_index) ==
    IF pending.allow_multi_select /\ InSeq(die_index, pending.selected)
    THEN [pending EXCEPT !.selected = SelectSeq(@, LAMBDA x : x # die_index)]
    ELSE [pending EXCEPT !.selected = Append(@, die_index)]

\* variant: the selection is complete only once it exceeds the required count
is_complete_late(pending) == Len(pending.selected) > pending.required

\* PendingCard.is_complete
is_complete(pending) == Len(pending.selected) >= pending.required

\* variant: any selection, the empty one included, may be confirmed
has_minimum_selection_lax(pending) == Len(pending.selected) >= 0

\* PendingCard.has_minimum_selection
has_minimum_selection(pending) ==
    IF pending.required <= 0 THEN pending.selected # <<>>
    ELSE Len(pending.selected) >= pending.required

\* variant: a targeted card stays in the hand while its selection is pending
play_card_keeping_in_hand(c) ==
    IF CardTargets(cards[c]) > 0
    THEN /\ pending_card' = PendingCard(c)
         /\ hand' = hand
         /\ last' = Did(-1, 1)
         /\ UNCHANGED << game_over, player_hp, player_block, enemy_hp, enemy_block,
                         enemy_intent, turn_count, dice, cards, draw_pile, discard_pile,
                         plays, economy_vars, scene, flow_vars >>
    ELSE /\ plays' = plays + 1
         /\ finalize_card_resolution(
                resolve_card_effect(CurrentBoard, CardEffect(cards[c]), <<>>, <<>>),
                RemoveCard(hand, c), Append(discard_pile, c))

\* on_card_dropped past its guards: hand card c is consumed and played
play_card(c) ==
    IF CardTargets(cards[c]) > 0
    THEN /\ pending_card' = PendingCard(c)
         /\ hand' = RemoveCard(hand, c)
         /\ last' = Did(-1, 1)
         /\ UNCHANGED << game_over, player_hp, player_block, enemy_hp, enemy_block,
                         enemy_intent, turn_count, dice, cards, draw_pile, discard_pile,
                         plays, economy_vars, scene, flow_vars >>
    ELSE /\ plays' = plays + 1
         /\ finalize_card_resolution(
                resolve_card_effect(CurrentBoard, CardEffect(cards[c]), <<>>, <<>>),
                RemoveCard(hand, c), Append(discard_pile, c))

\* variant: a drop is accepted whatever card is pending
drop_refused_ignoring_pending(c, in_zone) == game_over \/ ~in_zone

\* the drop of hand card c is turned away: game over, another card pending, or a drop
\* outside the play zone
drop_refused(c, in_zone) ==
    \/ game_over
    \/ pending_card # None /\ pending_card.card # c
    \/ ~in_zone

\* on_card_dropped(widget): widget shows hand card c, dropped inside the play zone or not
CardDropped(c, in_zone, b) ==
    /\ scene = "main"
    /\ InSeq(c, hand)
    /\ IF drop_refused(c, in_zone) THEN Refused(0)
       ELSE /\ plays < MaxPlays
            /\ turn_count <= b.play_turns
            /\ WithinEconomy(b)
            /\ play_card(c)

\* variant: the resolved card is not put on the discard pile
ResolvePendingWithoutDiscard(pending) ==
    /\ plays' = plays + 1
    /\ \E rolls \in RollInputs(CardEffect(cards[pending.card]), pending.selected) :
        finalize_card_resolution(
            resolve_card_effect(CurrentBoard, CardEffect(cards[pending.card]),
                                pending.selected, rolls),
            hand, discard_pile)

\* the pending card resolves over its selection and goes to the discard pile
ResolvePending(pending) ==
    /\ plays' = plays + 1
    /\ \E rolls \in RollInputs(CardEffect(cards[pending.card]), pending.selected) :
        finalize_card_resolution(
            resolve_card_effect(CurrentBoard, CardEffect(cards[pending.card]),
                                pending.selected, rolls),
            hand, Append(discard_pile, pending.card))

\* the selection changes and the card stays pending
KeepPending(pending, logs) ==
    /\ pending_card' = pending
    /\ last' = Did(-1, logs)
    /\ UNCHANGED << game_over, player_hp, player_block, enemy_hp, enemy_block, enemy_intent,
                    turn_count, dice, cards, hand, draw_pile, discard_pile, plays,
                    economy_vars, scene, flow_vars >>

\* on_die_clicked(index) with a card pending
click_pending(index) ==
    IF pending_card.allow_multi_select
    THEN KeepPending(add_target(pending_card, index), 1)
    ELSE IF is_complete(add_target(pending_card, index))
    THEN ResolvePending(add_target(pending_card, index))
    ELSE KeepPending(add_target(pending_card, index), 0)

\* variant: on_die_clicked without the game_over guard
DieClickedWhenOver(index) ==
    /\ scene = "main"
    /\ IF pending_card = None THEN Refused(1)
       ELSE click_pending(index)

\* on_die_clicked(index)
DieClicked(index) ==
    /\ scene = "main"
    /\ IF game_over THEN Refused(0)
       ELSE IF pending_card = None THEN Refused(1)
       ELSE click_pending(index)

\* variant: the guard on allow_multi_select is inverted
confirm_refused_inverted ==
    \/ game_over
    \/ pending_card = None
    \/ pending_card.allow_multi_select
    \/ ~has_minimum_selection(pending_card)

\* confirm_pending_selection returns without resolving
confirm_refused ==
    \/ game_over
    \/ pending_card = None
    \/ ~pending_card.allow_multi_select
    \/ ~has_minimum_selection(pending_card)

\* confirm_pending_selection
ConfirmPendingSelection ==
    /\ scene = "main"
    /\ IF confirm_refused THEN Refused(0)
       ELSE ResolvePending(pending_card)

\* variant: the attack is subtracted from the block without the floor at 0
apply_intent_unclamped(intent, hp, pb, eb) ==
    IF intent.type = "attack"
    THEN LET blocked == Min(intent.value, pb)
             damage == intent.value - blocked
         IN [player_hp |-> IF damage > 0 THEN hp - damage ELSE hp,
             player_block |-> pb - intent.value,
             enemy_block |-> eb]
    ELSE [player_hp |-> hp, player_block |-> pb, enemy_block |-> eb + intent.value]

\* variant: an attack uses up the whole block
apply_intent_block_spent(intent, hp, pb, eb) ==
    IF intent.type = "attack"
    THEN LET blocked == Min(intent.value, pb)
             damage == intent.value - blocked
         IN [player_hp |-> IF damage > 0 THEN hp - damage ELSE hp,
             player_block |-> 0,
             enemy_block |-> eb]
    ELSE [player_hp |-> hp, player_block |-> pb, enemy_block |-> eb + intent.value]

\* the enemy intent applied to the player: [player_hp, player_block, enemy_block]
apply_intent(intent, hp, pb, eb) ==
    IF intent.type = "attack"
    THEN LET blocked == Min(intent.value, pb)
             damage == intent.value - blocked
         IN [player_hp |-> IF damage > 0 THEN hp - damage ELSE hp,
             player_block |-> Max(0, pb - intent.value),
             enemy_block |-> eb]
    ELSE [player_hp |-> hp, player_block |-> pb, enemy_block |-> eb + intent.value]

\* the permutations a draw of `count` cards can consume
ShuffleInputs(draw, discard, count) ==
    IF Len(draw) < count /\ discard # <<>> THEN ShuffleChoices ELSE {0}

\* variant: on_defeat leaves the game running
on_defeat_unnoticed(a, dp) ==
    /\ game_over' = game_over
    /\ player_hp' = a.player_hp
    /\ player_block' = a.player_block
    /\ enemy_block' = a.enemy_block
    /\ hand' = <<>>
    /\ discard_pile' = dp
    /\ last' = Did(-1, IF game_over THEN 1 ELSE 2)
    /\ UNCHANGED << enemy_hp, enemy_intent, turn_count, dice, cards, draw_pile,
                    pending_card, plays, economy_vars, scene, flow_vars >>

\* on_defeat, called by end_turn once intent outcome a is applied and the hand discarded
on_defeat(a, dp) ==
    /\ game_over' = TRUE
    /\ player_hp' = a.player_hp
    /\ player_block' = a.player_block
    /\ enemy_block' = a.enemy_block
    /\ hand' = <<>>
    /\ discard_pile' = dp
    /\ last' = Did(-1, IF game_over THEN 1 ELSE 2)
    /\ UNCHANGED << enemy_hp, enemy_intent, turn_count, dice, cards, draw_pile,
                    pending_card, plays, economy_vars, scene, flow_vars >>

\* variant: the new hand is drawn on top of the old one
next_turn_keeping_hand(a, dp) ==
    /\ player_hp' = a.player_hp
    /\ player_block' = a.player_block
    /\ enemy_block' = a.enemy_block
    /\ turn_count' = turn_count + 1
    /\ \E faces \in RollRows : dice' = roll_dice(dice, FALSE, faces)
    /\ \E intent \in Intents : enemy_intent' = intent
    /\ \E k \in ShuffleInputs(draw_pile, discard_pile, HAND_LIMIT) :
          LET p == draw_cards([draw |-> draw_pile, discard |-> discard_pile, hand |-> hand,
                               logs |-> 0], HAND_LIMIT, k)
          IN /\ hand' = p.hand
             /\ draw_pile' = p.draw
             /\ discard_pile' = p.discard
             /\ last' = Did(-1, 1 + p.logs)
    /\ UNCHANGED << game_over, enemy_hp, cards, pending_card, plays, economy_vars, scene,
                    flow_vars >>

\* the rest of end_turn when the player survives: next turn, roll, draw, new intent
next_turn(a, dp) ==
    /\ player_hp' = a.player_hp
    /\ player_block' = a.player_block
    /\ enemy_block' = a.enemy_block
    /\ turn_count' = turn_count + 1
    /\ \E faces \in RollRows : dice' = roll_dice(dice, FALSE, faces)
    /\ \E intent \in Intents : enemy_intent' = intent
    /\ \E k \in ShuffleInputs(draw_pile, dp, HAND_LIMIT) :
          LET p == draw_cards([draw |-> draw_pile, discard |-> dp, hand |-> <<>>,
                               logs |-> 0], HAND_LIMIT, k)
          IN /\ hand' = p.hand
             /\ draw_pile' = p.draw
             /\ discard_pile' = p.discard
             /\ last' = Did(-1, 1 + p.logs)
    /\ UNCHANGED << game_over, enemy_hp, cards, pending_card, plays, economy_vars, scene,
                    flow_vars >>

\* variant: end_turn goes on to the next turn without looking at player_hp
enemy_turn_without_defeat ==
    next_turn(apply_intent(enemy_intent, player_hp, player_block, enemy_block),
              discard_pile \o hand)

\* end_turn past its guards: discard the hand, apply the intent, check defeat
enemy_turn ==
    LET dp == discard_pile \o hand
        a == apply_intent(enemy_intent, player_hp, player_block, enemy_block)
    IN IF a.player_hp <= 0 THEN on_defeat(a, dp) ELSE next_turn(a, dp)

\* variant: end_turn without the game_over guard
EndTurnWhenOver(b) ==
    /\ scene = "main"
    /\ IF pending_card # None THEN Refused(1)
       ELSE /\ turn_count <= b.turns
            /\ WithinEconomy(b)
            /\ enemy_turn

\* variant: end_turn without the pending-selection guard
EndTurnWhilePending(b) ==
    /\ scene = "main"
    /\ IF game_over THEN Refused(0)
       ELSE /\ turn_count <= b.turns
            /\ WithinEconomy(b)
            /\ enemy_turn

\* end_turn
EndTurn(b) ==
    /\ scene = "main"
    /\ IF game_over THEN Refused(0)
       ELSE IF pending_card # None THEN Refused(1)
       ELSE /\ turn_count <= b.turns
            /\ WithinEconomy(b)
            /\ enemy_turn

\* the "New Battle" button of the combat scene
ResetCombat ==
    /\ scene = "main"
    /\ reset_combat
    /\ UNCHANGED << economy_vars, scene, flow_vars >>

\* on_victory called again for a kill already made
OnVictoryAgain ==
    /\ enemy_hp <= 0
    /\ on_victory(-1, 0)
    /\ UNCHANGED << player_hp, player_block, enemy_hp, enemy_block, enemy_intent, turn_count,
                    dice, cards, hand, draw_pile, discard_pile, pending_card, plays,
                    deck_blueprint >>

-----------------------------------------------------------------------------
(* Shop and upgrade scenes *)

\* attempt_purchase past its guards: pay, add the card, mark the offer sold
purchase(i) ==
    /\ gold' = gold - cards_for_sale[i].price
    /\ deck_blueprint' = Append(deck_blueprint, cards_for_sale[i].card_key)
    /\ cards_for_sale' = [cards_for_sale EXCEPT ![i].sold = TRUE]
    /\ last' = Did(-1, 0)
    /\ UNCHANGED << combat_vars, scene, options, has_upgraded, continue_enabled >>

\* variant: attempt_purchase sells on credit while any gold is left
purchase_refused_when_broke(i) ==
    \/ cards_for_sale[i].sold
    \/ gold <= 0

\* variant: attempt_purchase without the sold check
purchase_refused_funds_only(i) == gold < cards_for_sale[i].price

\* variant: attempt_purchase without the funds check
purchase_refused_sold_only(i) == cards_for_sale[i].sold

\* attempt_purchase returns without selling: the offer is sold or the gold is short
purchase_refused(i) ==
    \/ cards_for_sale[i].sold
    \/ gold < cards_for_sale[i].price

\* ShopScene.attempt_purchase(view): view is offer number i
AttemptPurchase(i, b) ==
    /\ scene = "shop"
    /\ i \in DOMAIN cards_for_sale
    /\ IF purchase_refused(i) THEN Refused(0)
       ELSE /\ Len(deck_blueprint) < b.deck
            /\ purchase(i)

\* deck_blueprint.index(key): 0 when the key is absent (ValueError)
IndexOf(bp, key) ==
    IF InSeq(key, bp)
    THEN CHOOSE j \in DOMAIN bp : bp[j] = key /\ \A m \in 1 .. (j - 1) : bp[m] # key
    ELSE 0

\* apply_upgrade past its guards: one blueprint entry becomes its "_plus" key
upgrade(i) ==
    /\ deck_blueprint' = [deck_blueprint EXCEPT
                             ![IndexOf(deck_blueprint, options[i])] = PlusKey(options[i])]
    /\ has_upgraded' = TRUE
    /\ continue_enabled' = TRUE
    /\ last' = Did(-1, 0)
    /\ UNCHANGED << combat_vars, gold, scene, cards_for_sale, options >>

\* variant: apply_upgrade without the has_upgraded guard
ApplyUpgradeRepeatedly(i) ==
    /\ scene = "upgrade"
    /\ i \in DOMAIN options
    /\ IF IndexOf(deck_blueprint, options[i]) = 0 THEN Refused(0)
       ELSE upgrade(i)

\* UpgradeScene.apply_upgrade(option): option is option number i
ApplyUpgrade(i) ==
    /\ scene = "upgrade"
    /\ i \in DOMAIN options
    /\ IF has_upgraded THEN Refused(0)
       ELSE IF IndexOf(deck_blueprint, options[i]) = 0 THEN Refused(0)
       ELSE upgrade(i)

\* variant: the next combat starts with the opening purse
StartNextCombatAfresh ==
    /\ \/ scene = "shop"
       \/ scene = "upgrade" /\ continue_enabled
    /\ reset_combat
    /\ scene' = "main"
    /\ gold' = INITIAL_GOLD
    /\ UNCHANGED << deck_blueprint, flow_vars >>

\* ShopScene.start_next_combat / UpgradeScene.start_next_combat
StartNextCombat ==
    /\ \/ scene = "shop"
       \/ scene = "upgrade" /\ continue_enabled
    /\ reset_combat
    /\ scene' = "main"
    /\ UNCHANGED << economy_vars, flow_vars >>

-----------------------------------------------------------------------------------------------------------------------------------------------------
(* Specifications.  Spec explores the combat with its card plays over few  *)
(* turns, SpecTurns the combat over many turns, SpecEconomy the economy    *)
(* over several short combats, SpecDice the effect of a no-target card on  *)
(* every assignment of the dice, SpecLate a combat late in a run, when     *)
(* few kinds of cards are left to upgrade, SpecDraw a combat without card  *)
(* plays until the draw pile runs out, SpecEffects and SpecSelect the      *)
(* first turn of a combat fought with a deck of plain and "_plus" cards,   *)
(* SpecSelectFair that turn under fair delivery of clicks and confirms.    *)

NextWithin(b) ==
    \/ \E c \in Range(hand), in_zone \in BOOLEAN : CardDropped(c, in_zone, b)
    \/ \E index \in 0 .. (ClickDice - 1) : DieClicked(index)
    \/ ConfirmPendingSelection
    \/ EndTurn(b)
    \/ ResetCombat
    \/ OnVictoryAgain
    \/ \E i \in 1 .. 3 : AttemptPurchase(i, b)
    \/ \E i \in 1 .. 3 : ApplyUpgrade(i)
    \/ StartNextCombat

CombatScope == Scope(MaxTurn, MaxTurn + 1, MaxDeck, MaxEarned, MaxGold)

Next == NextWithin(CombatScope)

Spec == Init /\ [][Next]_vars

TurnsScope == Scope(LongMaxTurn, LongPlayTurn, MaxDeck, MaxEarned, MaxGold)

NextTurns == NextWithin(TurnsScope)

SpecTurns == Init /\ [][NextTurns]_vars

EconomyScope == Scope(ShopMaxTurn, ShopMaxTurn + 1, ShopMaxDeck, ShopMaxEarned, MaxGold)

NextEconomy == NextWithin(EconomyScope)

SpecEconomy == Init /\ [][NextEconomy]_vars

\* SpecDice: a no-target card played on the first roll of a combat, for every first roll
DiceCards == { "strafe" }

NextDice ==
    \E c \in Range(hand) :
        /\ CardEffect(cards[c]) \in DiceCards
        /\ CardDropped(c, TRUE, CombatScope)

SpecDice == InitAnyRoll /\ [][NextDice]_vars

\* SpecLate: a combat late in a run, after LateEarned gold of rewards, all of it kept,
\* and one upgrade per victory: every copy of the kinds in `keys` is upgraded
UpgradedDeck(keys) ==
    [i \in DOMAIN INITIAL_DECK_BLUEPRINT |->
        IF INITIAL_DECK_BLUEPRINT[i] \in keys
        THEN PlusKey(INITIAL_DECK_BLUEPRINT[i]) ELSE INITIAL_DECK_BLUEPRINT[i]]

\* the kinds upgraded so far: all seven, all but strike, all but strike and tinker
LateKeySets ==
    { UpgradableKeys, UpgradableKeys \ {"strike"}, UpgradableKeys \ {"strike", "tinker"} }

\* the state start_next_combat leaves when the latest upgrade visit has turned the last
\* "reroll" (blueprint entry 3) into "reroll_plus"
InitLate ==
    /\ \E keys \in LateKeySets :
          /\ deck_blueprint = UpgradedDeck(keys)
          /\ \E k \in ShuffleChoices :
                options = generate_options([UpgradedDeck(keys) EXCEPT ![3] = "reroll"], k)
    /\ gold = INITIAL_GOLD + LateEarned
    /\ scene = "main"
    /\ cards_for_sale = <<>>
    /\ has_upgraded = TRUE
    /\ continue_enabled = TRUE
    /\ last = Did(-1, 1)
    /\ plays = 0
    /\ game_over = FALSE
    /\ player_hp = PLAYER_MAX_HP
    /\ player_block = 0
    /\ enemy_hp = ENEMY_MAX_HP
    /\ enemy_block = 0
    /\ turn_count = 1
    /\ pending_card = None
    /\ cards = deck_blueprint
    /\ discard_pile = <<>>
    /\ \E k \in ShuffleChoices :
          LET p == ResetPiles[Len(INITIAL_DECK_BLUEPRINT), k]
          IN /\ hand = p.hand
             /\ draw_pile = p.draw
    /\ \E faces \in RollRows : dice = roll_dice(NewDice, TRUE, faces)
    /\ \E intent \in Intents : enemy_intent = intent

LateScope ==
    Scope(ShopMaxTurn, ShopMaxTurn + 1, MaxDeck, LateEarned, INITIAL_GOLD + LateEarned)

NextLate == NextWithin(LateScope)

SpecLate == InitLate /\ [][NextLate]_vars

\* SpecDraw: turns ended one after the other with no card played, over the whole deck
DrawScope == Scope(DrawMaxTurn, 0, MaxDeck, MaxEarned, MaxGold)

NextDraw ==
    \/ EndTurn(DrawScope)
    \/ ResetCombat
    \/ \E index \in 0 .. (ClickDice - 1) : DieClicked(index)

SpecDraw == Init /\ [][NextDraw]_vars

\* SpecEffects and SpecSelect: the first turn of a combat that follows seven upgrade
\* visits, one for each upgradable kind, with every reward kept.  apply_upgrade
\* replaces the first copy of the chosen kind, so the deck holds one "_plus" card and
\* two plain ones of each such kind.
MixedDeck ==
    [i \in DOMAIN INITIAL_DECK_BLUEPRINT |->
        IF /\ INITIAL_DECK_BLUEPRINT[i] \in UpgradableKeys
           /\ \A j \in 1 .. (i - 1) : INITIAL_DECK_BLUEPRINT[j] # INITIAL_DECK_BLUEPRINT[i]
        THEN PlusKey(INITIAL_DECK_BLUEPRINT[i]) ELSE INITIAL_DECK_BLUEPRINT[i]]

\* the rewards of those seven victories
MixedEarned == 7 * MIN_REWARD

\* the state start_next_combat leaves when the latest visit has upgraded the first
\* "reroll", the shuffle of reset_combat has brought one of `hands` into the hand, the
\* first natural roll is one of `rolls` and the first intent one of `intents`
InitMixed(hands, rolls, intents) ==
    /\ deck_blueprint = MixedDeck
    /\ options = generate_options([MixedDeck EXCEPT ![1] = "reroll"], 0)
    /\ gold = INITIAL_GOLD + MixedEarned
    /\ scene = "main"
    /\ cards_for_sale = <<>>
    /\ has_upgraded = TRUE
    /\ continue_enabled = TRUE
    /\ last = Did(-1, 1)
    /\ plays = 0
    /\ game_over = FALSE
    /\ player_hp = PLAYER_MAX_HP
    /\ player_block = 0
    /\ enemy_hp = ENEMY_MAX_HP
    /\ enemy_block = 0
    /\ turn_count = 1
    /\ pending_card = None
    /\ cards = MixedDeck
    /\ discard_pile = <<>>
    /\ hand \in hands
    /\ draw_pile = SelectSeq(IndexSeq(Len(MixedDeck)), LAMBDA c : ~InSeq(c, hand))
    /\ \E faces \in rolls : dice = roll_dice(NewDice, TRUE, faces)
    /\ \E intent \in intents : enemy_intent = intent

MixedScope ==
    Scope(ShopMaxTurn, ShopMaxTurn + 1, MaxDeck, MixedEarned, INITIAL_GOLD + MixedEarned)

\* hands of cards without targets: odd_attack, strike_plus, strike, one_shot_plus;
\* one_shot, pair_shot_plus, pair_shot, even_shield; fortify_plus, fortify,
\* double_guard_plus, double_guard
EffectHands == { <<4, 22, 23, 34>>, <<35, 31, 32, 7>>, <<25, 26, 37, 38>> }

\* the enemy opens with its attack
EffectIntents == { intent \in Intents : intent.type = "attack" }

InitEffects == InitMixed(EffectHands, [DieIndex -> Faces], EffectIntents)

\* SpecEffects: a card without targets played on the first roll, for every first roll
NextEffects == \E c \in Range(hand) : CardDropped(c, TRUE, MixedScope)

SpecEffects == InitEffects /\ [][NextEffects]_vars

\* hands of cards with targets: clone, mirror, tinker_plus, tinker; stasis, reroll_plus,
\* reroll, clone
SelectHands == { <<10, 13, 19, 20>>, <<16, 1, 2, 11>> }

\* first rolls in which the first die shows any face
SelectRolls == { [i \in DieIndex |-> IF i = 0 THEN f ELSE 7 - i] : f \in Faces }

InitSelect == InitMixed(SelectHands, SelectRolls, Intents)

\* SpecSelect: one turn of target selection
NextSelect ==
    \/ \E c \in Range(hand), in_zone \in BOOLEAN : CardDropped(c, in_zone, MixedScope)
    \/ \E index \in 0 .. (ClickDice - 1) : DieClicked(index)
    \/ ConfirmPendingSelection
    \/ EndTurn(MixedScope)
    \/ ResetCombat

SpecSelect == InitSelect /\ [][NextSelect]_vars

\* the event loop hands every die click and every press of Confirm to its handler
FairDelivery ==
    /\ WF_vars(\E index \in 0 .. (ClickDice - 1) : DieClicked(index))
    /\ WF_vars(ConfirmPendingSelection)

\* the fair runs stay within the first turn: cards are played in it and end_turn is
\* only ever turned away, by a pending selection
FairScope == [MixedScope EXCEPT !.turns = 0, !.play_turns = 1]

NextSelectFair ==
    \/ \E c \in Range(hand), in_zone \in BOOLEAN : CardDropped(c, in_zone, FairScope)
    \/ \E index \in 0 .. (ClickDice - 1) : DieClicked(index)
    \/ ConfirmPendingSelection
    \/ EndTurn(FairScope)
    \/ ResetCombat

\* first roll of the fair runs: the dice show 1, 6, 5, 4, 3
FairRolls == { roll \in SelectRolls : roll[0] = 1 }

InitSelectFair == InitMixed(SelectHands, FairRolls, EffectIntents)

SpecSelectFair == InitSelectFair /\ [][NextSelectFair]_vars /\ FairDelivery

-----
(* Properties *)

\* the cards of the three piles, and 1 more while a card is held by a pending selection
PileCount == Len(draw_pile) + Len(discard_pile) + Len(hand)

HeldCount == IF pending_card # None THEN 1 ELSE 0

\* the state reset_combat leaves
FreshCombat ==
    /\ ~game_over
    /\ turn_count = 1
    /\ player_hp = PLAYER_MAX_HP
    /\ enemy_hp = ENEMY_MAX_HP
    /\ player_block = 0
    /\ enemy_block = 0
    /\ pending_card = None
    /\ plays = 0

\* C1 as stated: while the combat runs, len(draw_pile) + len(discard_pile) + len(hand)
\* equals len(deck_blueprint).  It fails while a targeted card awaits its dice: the card
\* has left the hand and has not reached the discard pile yet.
C1_PilesCountTheDeck == ~game_over => PileCount = Len(deck_blueprint)

\* C1, amended: while the combat runs, the three piles together with the card held by the
\* pending selection (if any) count len(deck_blueprint) cards.
C1_PilesAndPendingCountTheDeck == ~game_over => PileCount + HeldCount = Len(deck_blueprint)

\* a running combat, past its first turn, with cards discarded and a card pending
C1_Witness ==
    /\ ~game_over
    /\ turn_count > 1
    /\ discard_pile # <<>>
    /\ pending_card # None

C3_KillEndsCombat == enemy_hp <= 0 => game_over

\* a card resolution has brought the enemy to 0 HP or below
C3_Witness ==
    /\ enemy_hp <= 0
    /\ game_over
    /\ plays = 1
    /\ last.amount > 0

\* C4: the reward is awarded at most once per combat.  No step taken while game_over is
\* set raises gold or changes the scene (a second on_victory call is such a step), gold
\* rises only on the step that sets game_over, by 5..8, and only a reset clears game_over.
C4_RewardOnce ==
    [][ /\ (game_over /\ game_over' => gold' <= gold /\ scene' = scene)
        /\ (gold' > gold =>
                ~game_over /\ game_over' /\ gold' - gold \in MIN_REWARD .. MAX_REWARD)
        /\ (game_over /\ ~game_over' => FreshCombat') ]_vars

\* on_victory has been called again in the upgrade scene, before any upgrade
C4_Witness ==
    /\ scene = "upgrade"
    /\ game_over
    /\ enemy_hp <= 0
    /\ ~has_upgraded
    /\ gold > INITIAL_GOLD
    /\ last = Did(-1, 0)

\* C5: player_hp <= 0 comes with game_over, and once defeated every event leaves HP,
\* block, dice, piles, hand, turn counter, intent and gold unchanged; only reset_combat
\* leaves the defeat.
C5_DefeatTerminal ==
    /\ [](player_hp <= 0 => game_over)
    /\ [][ game_over /\ player_hp <= 0 =>
             \/ /\ game_over'
                /\ UNCHANGED << player_hp, enemy_hp, player_block, enemy_block, dice,
                                draw_pile, discard_pile, hand, turn_count, enemy_intent,
                                gold >>
             \/ FreshCombat' ]_vars

\* the player is defeated and a later event has been turned away
C5_Witness ==
    /\ game_over
    /\ player_hp <= 0
    /\ last = Did(-1, 0)

\* C6: end_turn with a selection pending leaves hand, piles, HP, block, dice, turn
\* counter, intent and the pending selection unchanged.
C6_EndTurnRefusedWhilePending ==
    [][ pending_card # None /\ EndTurn(CombatScope) =>
          UNCHANGED << hand, draw_pile, discard_pile, player_hp, enemy_hp, player_block,
                       enemy_block, dice, turn_count, enemy_intent, pending_card >> ]_vars

\* end_turn has been turned away (one line logged) while clone holds its first die
C6_Witness ==
    /\ pending_card # None
    /\ ~pending_card.allow_multi_select
    /\ Len(pending_card.selected) = 1
    /\ last = Did(-1, 1)

\* C7: while a selection is pending, the drop of any other card leaves hand, piles, dice,
\* HP, block and the pending selection (card and selected indices) unchanged.  The
\* pending selection is the one pending_card field, so at most one is active.
C7_DropRefusedWhilePending ==
    [][ pending_card # None
        /\ (\E c \in Range(hand), in_zone \in BOOLEAN : CardDropped(c, in_zone, CombatScope)) =>
          UNCHANGED << hand, draw_pile, discard_pile, dice, player_hp, enemy_hp,
                       player_block, enemy_block, pending_card >> ]_vars

\* a multi-select card holds a selection, other cards are in hand, and a drop has been
\* turned away (nothing logged)
C7_Witness ==
    /\ pending_card # None
    /\ pending_card.allow_multi_select
    /\ pending_card.selected # <<>>
    /\ hand # <<>>
    /\ last = Did(-1, 0)

\* C8: both blocks are >= 0, and HP falls only once the block is used up, by the part of
\* the damage that exceeds the block.
C8_BlockBeforeHP ==
    /\ [](player_block >= 0 /\ enemy_block >= 0)
    /\ [][ /\ (enemy_hp' < enemy_hp =>
                  /\ enemy_block' = 0
                  /\ enemy_hp - enemy_hp' = last'.amount - enemy_block)
           /\ (player_hp' < player_hp =>
                  /\ player_block' = 0
                  /\ enemy_intent.type = "attack"
                  /\ player_hp - player_hp' = enemy_intent.value - player_block) ]_vars

\* an attack has gone partly into the block and partly into the player's HP
C8_Witness ==
    /\ player_hp < PLAYER_MAX_HP
    /\ player_block = 0
    /\ (PLAYER_MAX_HP - player_hp) % 10 # 0

\* C9: gold is never negative.
C9_GoldNonNegative == gold >= 0

\* the shop holds an unsold offer the player cannot afford
C9_Witness ==
    /\ scene = "shop"
    /\ \E i \in DOMAIN cards_for_sale :
          ~cards_for_sale[i].sold /\ gold < cards_for_sale[i].price

\* C10: a handler that deals amount a > 0 against enemy block b leaves
\* enemy_block = b - min(a, b) and enemy_hp reduced by a - min(a, b); a handler that
\* deals amount 0 changes neither.
C10_BlockAbsorption ==
    [][ last'.amount >= 0 =>
          LET a == last'.amount
              b == enemy_block
          IN /\ enemy_block' = b - Min(a, b)
             /\ enemy_hp' = enemy_hp - (a - Min(a, b)) ]_vars

\* damage has gone partly into the enemy's block: HP fell by less than the amount dealt
C10_Witness ==
    /\ last.amount > 0
    /\ enemy_block = 0
    /\ enemy_hp < ENEMY_MAX_HP
    /\ enemy_hp > ENEMY_MAX_HP - last.amount

\* strafe is dropped in the play zone and accepted
StrafePlayed ==
    \E c \in Range(hand) :
        /\ CardEffect(cards[c]) = "strafe"
        /\ ~drop_refused(c, TRUE)
        /\ CardDropped(c, TRUE, CombatScope)

\* the dice of the scenario: [2, 4, 6, 1, 3]
ScenarioDice == [i \in DieIndex |-> << 2, 4, 6, 1, 3 >>[i + 1]]

\* C11 as stated: with dice [2,4,6,1,3], strafe deals 0 damage and leaves enemy HP and
\* block unchanged.  It fails: the faces {1,2,3,4,6} contain the small straight {1,2,3,4}.
C11_StrafeDealsNothing ==
    [][ DiceValues(dice) = ScenarioDice /\ StrafePlayed =>
          /\ last'.amount = 0
          /\ UNCHANGED << enemy_hp, enemy_block >> ]_vars

\* C11, amended: with dice [2,4,6,1,3], strafe deals 30 damage, taken from the enemy's
\* block first and from the enemy's HP for the rest.
C11_StrafeDealsThirty ==
    [][ DiceValues(dice) = ScenarioDice /\ StrafePlayed =>
          /\ last'.amount = 30
          /\ enemy_block' = enemy_block - Min(30, enemy_block)
          /\ enemy_hp' = enemy_hp - (30 - Min(30, enemy_block)) ]_vars

\* strafe has resolved on the dice [2,4,6,1,3]
C11_Witness ==
    /\ DiceValues(dice) = ScenarioDice
    /\ plays = 1
    /\ discard_pile # <<>>
    /\ cards[discard_pile[Len(discard_pile)]] = "strafe"
    /\ last.amount >= 0

\* C12: for every assignment of the dice, strafe deals 60 if the faces contain {1,..,5}
\* or {2,..,6}, otherwise 30 if they contain {1,..,4}, {2,..,5} or {3,..,6}, otherwise 0.
C12_StrafeDamageTable ==
    [][ StrafePlayed =>
          LET vs == { dice[i].value : i \in DieIndex }
              amount ==
                  IF {1, 2, 3, 4, 5} \subseteq vs \/ {2, 3, 4, 5, 6} \subseteq vs THEN 60
                  ELSE IF \/ {1, 2, 3, 4} \subseteq vs
                          \/ {2, 3, 4, 5} \subseteq vs
                          \/ {3, 4, 5, 6} \subseteq vs THEN 30
                  ELSE 0
          IN /\ last'.amount = amount
             /\ (enemy_hp + enemy_block) - (enemy_hp' + enemy_block') = amount ]_vars

\* strafe has killed the enemy with a big straight that shows no 1
C12_Witness ==
    /\ plays = 1
    /\ discard_pile # <<>>
    /\ cards[discard_pile[Len(discard_pile)]] = "strafe"
    /\ last.amount = 60
    /\ \A i \in DieIndex : dice[i].value # 1
    /\ game_over

\* end_turn is called and passes its guards
TurnEnded == ~game_over /\ pending_card = None /\ EndTurn(CombatScope)

\* C13: an end_turn that applies an attack of m against player block b takes max(0, m - b)
\* from player_hp and leaves player_block = max(0, b - m); one that applies a block
\* intent of m adds m to enemy_block and leaves player_hp and player_block unchanged.
C13_IntentApplied ==
    [][ TurnEnded =>
          LET m == enemy_intent.value
              b == player_block
          IN IF enemy_intent.type = "attack"
             THEN /\ player_hp' = player_hp - Max(0, m - b)
                  /\ player_block' = Max(0, b - m)
             ELSE /\ enemy_block' = enemy_block + m
                  /\ UNCHANGED << player_hp, player_block >> ]_vars

\* an attack has been absorbed in full and part of the block is left for the next turn
C13_Witness ==
    /\ turn_count > 1
    /\ player_hp = PLAYER_MAX_HP
    /\ player_block > 0
    /\ player_block < 6
    /\ plays = 1

\* C14: every freeze counter is 0 or 1; the natural roll of an end_turn leaves a frozen
\* die its value and takes 1 from its counter, and rerolls every other die (so a die
\* frozen once is rerolled by the second roll unless frozen again); the roll of
\* reset_combat rerolls every die and clears every counter.
C14_FreezeHoldsOneRoll ==
    /\ [](\A i \in DieIndex : dice[i].frozen \in {0, 1})
    /\ [][ turn_count' = turn_count + 1 =>
              \E faces \in RollRows : \A i \in DieIndex :
                  dice'[i] = IF dice[i].frozen > 0
                             THEN [value |-> dice[i].value, frozen |-> dice[i].frozen - 1]
                             ELSE [value |-> faces[i], frozen |-> 0] ]_vars
    /\ [][ ResetCombat \/ StartNextCombat =>
              \E faces \in RollRows : \A i \in DieIndex :
                  dice'[i] = [value |-> faces[i], frozen |-> 0] ]_vars

\* two natural rolls after stasis froze dice in turn 2: the first roll has used the
\* freeze up, the second has rerolled all five dice
C14_Witness ==
    /\ turn_count = 4
    /\ plays = 1
    /\ \E j \in DOMAIN discard_pile : cards[discard_pile[j]] = "stasis"
    /\ \A i \in DieIndex : dice[i].frozen = 0
    /\ DiceValues(dice) \in RollRows

\* a die click is delivered while card selection `multi` (multi-select or not) is pending
ClickOnPending(index, multi) ==
    /\ ~game_over
    /\ pending_card # None
    /\ pending_card.allow_multi_select = multi
    /\ DieClicked(index)

\* C15: a pending single-select card always has len(selected) < required; each click
\* appends the clicked index (a repeated index too), and the click that brings the
\* selection to the required length resolves the card: the pending selection is cleared
\* and the card is put on the discard pile.
C15_SingleSelectResolvesOnLastClick ==
    /\ [](pending_card # None /\ ~pending_card.allow_multi_select =>
              Len(pending_card.selected) < pending_card.required)
    /\ [][ \A index \in DieIndex : ClickOnPending(index, FALSE) =>
              IF Len(pending_card.selected) + 1 = pending_card.required
              THEN /\ pending_card' = None
                   /\ discard_pile' = Append(discard_pile, pending_card.card)
              ELSE /\ pending_card' =
                         [pending_card EXCEPT !.selected = Append(@, index)]
                   /\ UNCHANGED << dice, discard_pile >> ]_vars

\* clone has resolved on its second click and lies on the discard pile
C15_Witness ==
    /\ pending_card = None
    /\ plays = 1
    /\ discard_pile # <<>>
    /\ cards[discard_pile[Len(discard_pile)]] = "clone"
    /\ dice[1].value = dice[0].value

\* C16: in multi-select mode a die click toggles the index's membership and resolves
\* nothing; the card resolves only with len(selected) >= required (at least one die when
\* required <= 0), on a step that is no die click, and a confirm with fewer leaves dice,
\* HP, block, piles and the pending selection unchanged.
C16_MultiSelectNeedsConfirm ==
    /\ [][ \A index \in DieIndex : ClickOnPending(index, TRUE) =>
              /\ pending_card' =
                    [pending_card EXCEPT !.selected =
                        IF InSeq(index, @) THEN SelectSeq(@, LAMBDA x : x # index)
                        ELSE Append(@, index)]
              /\ UNCHANGED << dice, player_hp, enemy_hp, player_block, enemy_block, hand,
                              draw_pile, discard_pile, plays >> ]_vars
    /\ [][ pending_card # None /\ pending_card.allow_multi_select /\ plays' > plays =>
              /\ Len(pending_card.selected) >= Max(pending_card.required, 1)
              /\ pending_card' = None
              /\ discard_pile' = Append(discard_pile, pending_card.card) ]_vars
    /\ [][ ( /\ pending_card # None
             /\ pending_card.allow_multi_select
             /\ Len(pending_card.selected) < Max(pending_card.required, 1)
             /\ ConfirmPendingSelection ) =>
              UNCHANGED << dice, player_hp, enemy_hp, player_block, enemy_block, hand,
                           draw_pile, discard_pile, pending_card >> ]_vars

\* stasis has been confirmed over two selected dice
C16_Witness ==
    /\ pending_card = None
    /\ plays = 1
    /\ discard_pile # <<>>
    /\ cards[discard_pile[Len(discard_pile)]] = "stasis"
    /\ dice[0].frozen = 1
    /\ dice[1].frozen = 1

\* C17: the hand never holds more than HAND_LIMIT cards.
C17_HandWithinLimit == Len(hand) <= HAND_LIMIT

\* a full hand drawn by an end_turn that followed a turn in which no card was played
C17_Witness ==
    /\ turn_count > 2
    /\ Len(hand) = HAND_LIMIT
    /\ Len(discard_pile) >= 2 * HAND_LIMIT

\* C18: reset_combat, from whatever state, leaves player_hp = 40, enemy_hp = 50, both
\* blocks 0, turn_count = 1, game_over false, no pending selection, an empty discard pile,
\* every freeze counter 0, min(HAND_LIMIT, n) cards in hand and the other n - len(hand)
\* in the draw pile, n = len(deck_blueprint), hand and draw pile holding exactly one
\* instance per blueprint entry.
C18_ResetLeavesSetup ==
    [][ ResetCombat \/ StartNextCombat =>
          LET n == Len(deck_blueprint)
          IN /\ player_hp' = 40
             /\ enemy_hp' = 50
             /\ player_block' = 0
             /\ enemy_block' = 0
             /\ turn_count' = 1
             /\ ~game_over'
             /\ pending_card' = None
             /\ discard_pile' = <<>>
             /\ \A i \in DieIndex : dice'[i].frozen = 0
             /\ Len(hand') = Min(HAND_LIMIT, n)
             /\ Len(draw_pile') = n - Len(hand')
             /\ Range(hand') \cup Range(draw_pile') = 1 .. n
             /\ cards' = deck_blueprint
             /\ deck_blueprint' = deck_blueprint ]_vars

\* the combat that follows a victory and the purchase of a 40th card has been set up
C18_Witness ==
    /\ scene = "main"
    /\ FreshCombat
    /\ Len(deck_blueprint) = Len(INITIAL_DECK_BLUEPRINT) + 1
    /\ Len(hand) = HAND_LIMIT
    /\ discard_pile = <<>>
    /\ last = Did(-1, 1)

\* end_turn is called and passes its guards, in the combat of many turns
LongTurnEnded == ~game_over /\ pending_card = None /\ EndTurn(TurnsScope)

\* C19: an end_turn the player survives puts the whole hand on the discard pile, adds 1
\* to turn_count, rolls the dice (a frozen die keeps its value), draws
\* min(HAND_LIMIT, cards in draw and discard pile) cards and rolls an intent; an
\* end_turn that ends in defeat leaves turn_count and dice unchanged and draws nothing.
C19_EndTurnSequence ==
    [][ LongTurnEnded =>
          IF player_hp' > 0
          THEN /\ ~game_over'
               /\ turn_count' = turn_count + 1
               /\ \A i \in DieIndex : dice[i].frozen > 0 => dice'[i].value = dice[i].value
               /\ \E faces \in RollRows : \A i \in DieIndex :
                      dice[i].frozen = 0 => dice'[i] = [value |-> faces[i], frozen |-> 0]
               /\ Len(hand') =
                      Min(HAND_LIMIT, Len(draw_pile) + Len(discard_pile) + Len(hand))
               /\ Len(draw_pile) >= HAND_LIMIT =>
                      /\ discard_pile' = discard_pile \o hand
                      /\ draw_pile' \o Reverse(hand') = draw_pile
               /\ enemy_intent' \in Intents
          ELSE /\ game_over'
               /\ UNCHANGED << turn_count, dice, draw_pile >>
               /\ hand' = <<>>
               /\ discard_pile' = discard_pile \o hand ]_vars

\* the fourth end_turn has ended in defeat: the hand is discarded and none is drawn
C19_Witness ==
    /\ game_over
    /\ player_hp <= 0
    /\ turn_count >= 4
    /\ hand = <<>>
    /\ Len(discard_pile) >= 3 * HAND_LIMIT

\* C20: a purchase of an unsold offer with gold >= price takes exactly the price from
\* gold, appends the offer's key once to deck_blueprint and marks the offer sold; an
\* attempt on a sold offer changes neither gold nor deck_blueprint, whatever the gold.
C20_PurchaseOnce ==
    [][ \A i \in 1 .. 3 :
          scene = "shop" /\ i \in DOMAIN cards_for_sale /\ AttemptPurchase(i, EconomyScope) =>
            LET offer == cards_for_sale[i]
            IN IF offer.sold
               THEN UNCHANGED << gold, deck_blueprint, cards_for_sale >>
               ELSE gold >= offer.price =>
                      /\ gold' = gold - offer.price
                      /\ deck_blueprint' = Append(deck_blueprint, offer.card_key)
                      /\ cards_for_sale' = [cards_for_sale EXCEPT ![i].sold = TRUE] ]_vars

\* the last 5 gold have bought a card at price 5, and another offer is sold as well
C20_Witness ==
    /\ scene = "shop"
    /\ gold = 0
    /\ Cardinality({ i \in DOMAIN cards_for_sale : cards_for_sale[i].sold }) >= 2
    /\ Len(deck_blueprint) >= Len(INITIAL_DECK_BLUEPRINT) + 2

\* C21: a purchase attempted with gold < price leaves gold, deck_blueprint and the
\* offers (their sold flags) unchanged.
C21_PurchaseRefusedWhenShort ==
    [][ \A i \in 1 .. 3 :
          ( /\ scene = "shop"
            /\ i \in DOMAIN cards_for_sale
            /\ gold < cards_for_sale[i].price
            /\ AttemptPurchase(i, EconomyScope) ) =>
              UNCHANGED << gold, deck_blueprint, cards_for_sale >> ]_vars

\* in a second shop visit one card is bought, the gold left is short of the price of the
\* two unsold offers, and the latest handler changed nothing
C21_Witness ==
    /\ scene = "shop"
    /\ gold > 0
    /\ gold < CARD_PRICE
    /\ Cardinality({ i \in DOMAIN cards_for_sale : ~cards_for_sale[i].sold }) = 2
    /\ last = Did(-1, 0)

\* C22: an upgrade replaces exactly one blueprint entry equal to the option's base key by
\* "<key>_plus" and leaves every other entry, the length and gold unchanged; once an
\* upgrade is applied, a further apply_upgrade in the visit changes nothing.
C22_OneUpgradePerVisit ==
    [][ \A i \in 1 .. 3 :
          ( scene = "upgrade" /\ i \in DOMAIN options /\ ApplyUpgrade(i) ) =>
              IF has_upgraded
              THEN UNCHANGED << deck_blueprint, gold, has_upgraded >>
              ELSE InSeq(options[i], deck_blueprint) =>
                     /\ gold' = gold
                     /\ has_upgraded'
                     /\ Len(deck_blueprint') = Len(deck_blueprint)
                     /\ \E j \in DOMAIN deck_blueprint :
                           /\ deck_blueprint[j] = options[i]
                           /\ deck_blueprint'[j] = PlusKey(options[i])
                           /\ \A m \in DOMAIN deck_blueprint \ {j} :
                                 deck_blueprint'[m] = deck_blueprint[m] ]_vars

\* an upgrade has been applied in this visit and two copies of the base key are left
C22_Witness ==
    /\ scene = "upgrade"
    /\ has_upgraded
    /\ \E i \in DOMAIN options :
          /\ Cardinality({ j \in DOMAIN deck_blueprint :
                              deck_blueprint[j] = PlusKey(options[i]) }) = 1
          /\ Cardinality({ j \in DOMAIN deck_blueprint :
                              deck_blueprint[j] = options[i] }) = 2

C24_ContinueAfterUpgrade ==
    /\ [][ scene # "upgrade" /\ scene' = "upgrade" =>
              /\ deck_blueprint' = deck_blueprint
              /\ ~has_upgraded'
              /\ IF \A j \in DOMAIN deck_blueprint : PlusKey(deck_blueprint[j]) \notin CARD_LIBRARY
                 THEN options' = <<>> /\ continue_enabled'
                 ELSE options' # <<>> /\ ~continue_enabled' ]_vars
    /\ [](scene = "upgrade" /\ options # <<>> => (continue_enabled <=> has_upgraded))
    /\ [][ scene = "upgrade" /\ StartNextCombat => has_upgraded \/ options = <<>> ]_vars

\* the upgrade flow has opened on a fully upgraded blueprint: nothing is offered and
\* continuing is enabled without an upgrade
C24_Witness ==
    /\ scene = "upgrade"
    /\ options = <<>>
    /\ continue_enabled
    /\ ~has_upgraded
    /\ \A j \in DOMAIN deck_blueprint : PlusKey(deck_blueprint[j]) \notin CARD_LIBRARY

\* hand card c is dropped in the play zone and accepted
CardPlayed(c) ==
    /\ InSeq(c, hand)
    /\ ~drop_refused(c, TRUE)
    /\ CardDropped(c, TRUE, CombatScope)

\* the pending card's effect resolves: the card goes to the discard pile
PendingResolved ==
    /\ pending_card # None
    /\ pending_card' = None
    /\ plays' = plays + 1
    /\ discard_pile' = Append(discard_pile, pending_card.card)

\* a pending selection begins exactly on the play of a card with targets > 0
PendingCreatedByTargetedPlay ==
    /\ pending_card = None /\ pending_card' # None =>
          \E c \in Range(hand) :
              /\ CardTargets(cards[c]) > 0
              /\ CardPlayed(c)
              /\ pending_card'.card = c
              /\ pending_card'.selected = <<>>
    /\ \A c \in Range(hand) :
          CardPlayed(c) => (pending_card' # None <=> CardTargets(cards[c]) > 0)
    /\ pending_card # None /\ pending_card' # None => pending_card'.card = pending_card.card

\* C25 as stated: a pending selection is created exactly when a card with targets > 0 is
\* played, and it ends when its effect resolves or when its card is returned to the hand
\* (the card is in the hand again, nothing else has changed).  It fails: no handler
\* returns a pending card to the hand, and reset_combat ends a pending selection too.
C25_PendingEndsByResolveOrReturn ==
    [][ /\ PendingCreatedByTargetedPlay
        /\ pending_card # None /\ pending_card' = None =>
              \/ PendingResolved
              \/ /\ hand' = Append(hand, pending_card.card)
                 /\ UNCHANGED << draw_pile, discard_pile, dice, plays, turn_count >> ]_vars

\* C25, amended: a pending selection is created exactly when a card with targets > 0 is
\* played, and it ends when its effect resolves or when reset_combat starts a new combat;
\* while it is pending the hand is left alone, so its card never returns to the hand.
C25_PendingEndsByResolveOrReset ==
    [][ /\ PendingCreatedByTargetedPlay
        /\ pending_card # None /\ pending_card' = None => PendingResolved \/ ResetCombat
        /\ pending_card # None /\ ~ResetCombat =>
              /\ hand' = hand
              /\ ~InSeq(pending_card.card, hand) ]_vars

\* a card with targets, played in the second turn, has resolved and ended its selection
C25_Witness ==
    /\ pending_card = None
    /\ turn_count = 2
    /\ plays = 1
    /\ discard_pile # <<>>
    /\ CardTargets(cards[discard_pile[Len(discard_pile)]]) > 0

\* the handlers of the combat scene that turn an action away once the game is over
ActsWhenOver ==
    /\ game_over
    /\ \/ EndTurn(TurnsScope)
       \/ ConfirmPendingSelection
       \/ \E index \in DieIndex : DieClicked(index)
       \/ \E c \in DOMAIN cards, in_zone \in BOOLEAN : CardDropped(c, in_zone, TurnsScope)

\* end_turn called while a selection is pending and the game is not over
EndTurnOnPending ==
    /\ ~game_over
    /\ pending_card # None
    /\ EndTurn(TurnsScope)

RewardPaid ==
    /\ ~game_over
    /\ game_over'
    /\ enemy_hp' <= 0
    /\ gold' - gold \in MIN_REWARD .. MAX_REWARD
    /\ deck_blueprint' = deck_blueprint

\* attempt_purchase sells an offer: its price is paid and its key appended
Purchased ==
    /\ scene = "shop"
    /\ \E i \in DOMAIN cards_for_sale :
          /\ cards_for_sale[i].price = CARD_PRICE
          /\ gold' = gold - cards_for_sale[i].price
          /\ deck_blueprint' = Append(deck_blueprint, cards_for_sale[i].card_key)

\* apply_upgrade replaces one blueprint entry by its "_plus" key, in place
Upgraded ==
    /\ scene = "upgrade"
    /\ gold' = gold
    /\ \E j \in DOMAIN deck_blueprint :
          /\ deck_blueprint[j] \in UpgradableKeys
          /\ deck_blueprint' = [deck_blueprint EXCEPT ![j] = PlusKey(deck_blueprint[j])]

HandLost(c) ==
    /\ Len(hand') = Len(hand) - 1
    /\ ~InSeq(c, hand')
    /\ \E j \in DOMAIN hand :
          /\ hand[j] = c
          /\ hand' = SubSeq(hand, 1, j - 1) \o SubSeq(hand, j + 1, Len(hand))

\* C28: playing a card with targets = 0 (dropped in the play zone, no game over, no
\* pending selection) resolves its effect at once against the current dice, removes
\* exactly that card instance from the hand (the hand shrinks by 1), appends it to the
\* discard pile and leaves no selection pending.
C28_NoTargetPlayResolvesAtOnce ==
    [][ \A c \in Range(hand) :
            (CardTargets(cards[c]) = 0 /\ CardPlayed(c)) =>
                LET b == resolve_card_effect(CurrentBoard, CardEffect(cards[c]), <<>>, <<>>)
                IN /\ dice' = b.dice
                   /\ player_block' = b.player_block
                   /\ enemy_hp' = b.enemy_hp
                   /\ enemy_block' = b.enemy_block
                   /\ last'.amount = b.amount
                   /\ plays' = plays + 1
                   /\ HandLost(c)
                   /\ discard_pile' = Append(discard_pile, c)
                   /\ draw_pile' = draw_pile
                   /\ pending_card' = None ]_vars

\* a card without targets has been played for damage and lies on top of the discard pile
C28_Witness ==
    /\ plays = 1
    /\ pending_card = None
    /\ Len(hand) = HAND_LIMIT - 1
    /\ discard_pile # <<>>
    /\ CardTargets(cards[discard_pile[Len(discard_pile)]]) = 0
    /\ last.amount >= 0

\* the number of places card instance c takes in sequence s
Copies(c, s) == Cardinality({j \in DOMAIN s : s[j] = c})

\* a die click or the confirm button resolves the pending card
PendingResolvedByHandler ==
    /\ pending_card # None
    /\ pending_card' = None
    /\ \/ \E index \in DieIndex : DieClicked(index)
       \/ ConfirmPendingSelection

\* C29: playing a card with targets > 0 removes exactly that instance from the hand and
\* creates a pending selection for it with an empty selection, without changing dice, HP,
\* block, draw pile or discard pile; while pending the card is in none of hand, draw pile
\* and discard pile, and it is appended to the discard pile exactly once, when the effect
\* resolves.
C29_TargetedPlayHoldsTheCard ==
    /\ [](pending_card # None =>
             /\ ~InSeq(pending_card.card, hand)
             /\ ~InSeq(pending_card.card, draw_pile)
             /\ ~InSeq(pending_card.card, discard_pile))
    /\ [][ /\ \A c \in Range(hand) :
               (CardTargets(cards[c]) > 0 /\ CardPlayed(c)) =>
                   /\ HandLost(c)
                   /\ pending_card' # None
                   /\ pending_card'.card = c
                   /\ pending_card'.selected = <<>>
                   /\ pending_card'.required = CardTargets(cards[c])
                   /\ UNCHANGED << dice, player_hp, enemy_hp, player_block, enemy_block,
                                   draw_pile, discard_pile >>
           /\ PendingResolvedByHandler =>
                   /\ discard_pile' = Append(discard_pile, pending_card.card)
                   /\ Copies(pending_card.card, discard_pile') = 1
                   /\ UNCHANGED << hand, draw_pile >>
           /\ (pending_card # None /\ pending_card' # None) =>
                   /\ pending_card'.card = pending_card.card
                   /\ UNCHANGED << hand, draw_pile, discard_pile >> ]_vars

\* in the second turn a card with targets has just been dropped in the play zone: it
\* awaits its dice, none chosen yet, and the discard pile holds the first hand
C29_Witness ==
    /\ pending_card # None
    /\ pending_card.selected = <<>>
    /\ turn_count = 2
    /\ Len(hand) = HAND_LIMIT - 1
    /\ Len(discard_pile) = HAND_LIMIT
    /\ last = Did(-1, 1)

\* the n cards popped one by one from the end of pile s, in the order they are drawn
DrawnFromEnd(s, n) == [j \in 1 .. n |-> s[Len(s) + 1 - j]]

\* small piles for draw_cards, among them piles too short for the draw and no pile at all
DrawSamples ==
    { [draw |-> d, discard |-> x, hand |-> h, logs |-> 0] :
        d \in { <<>>, <<1>>, <<1, 2>>, <<1, 2, 3, 4, 5>> },
        x \in { <<>>, <<6>>, <<6, 7, 8>> },
        h \in { <<>>, <<9>> } }

\* draw_cards(n) took piles p to piles q: min(n, |draw| + |discard|) cards reached the
\* hand, the draw pile gave its cards from its end first, and the discard pile was
\* shuffled in (every card of it, one log line) only once the draw pile was empty with
\* cards still to draw; otherwise the discard pile and the log were left alone
DrawLaw(p, q, n) ==
    LET m == Len(p.draw)
        held == Len(p.hand)
        moved == Min(n, m + Len(p.discard))
        fromDraw == Min(n, m)
    IN /\ Len(q.hand) = held + moved
       /\ SubSeq(q.hand, 1, held) = p.hand
       /\ SubSeq(q.hand, held + 1, held + fromDraw) = DrawnFromEnd(p.draw, fromDraw)
       /\ IF m >= n \/ p.discard = <<>>
          THEN /\ q.draw = SubSeq(p.draw, 1, m - fromDraw)
               /\ q.discard = p.discard
               /\ q.logs = p.logs
          ELSE /\ q.discard = <<>>
               /\ q.logs = p.logs + 1
               /\ Len(q.draw) = Len(p.discard) - (moved - m)
               /\ Range(q.draw) \cup Range(SubSeq(q.hand, held + m + 1, held + moved))
                      = Range(p.discard)

\* C30: draw_cards(n) moves min(n, len(draw_pile) + len(discard_pile)) cards into the
\* hand, each taken from the end of the draw pile; the discard pile is moved into the
\* draw pile only at a moment when the draw pile is empty, and when both piles are empty
\* drawing stops with fewer cards drawn and no other change.  Checked on the draw that
\* ends every turn and on draw_cards applied to the piles of DrawSamples.
C30_DrawCards ==
    /\ [](\A p \in DrawSamples, n \in 0 .. HAND_LIMIT, k \in ShuffleChoices :
             /\ DrawLaw(p, draw_cards(p, n, k), n)
             /\ (p.draw = <<>> /\ p.discard = <<>>) => draw_cards(p, n, k) = p)
    /\ [][ turn_count' = turn_count + 1 =>
               DrawLaw([draw |-> draw_pile, discard |-> discard_pile \o hand,
                        hand |-> <<>>, logs |-> 1],
                       [draw |-> draw_pile', discard |-> discard_pile', hand |-> hand',
                        logs |-> last'.logs],
                       HAND_LIMIT) ]_vars

\* a turn has just begun with a hand drawn across a reshuffle: the draw pile ran out, the
\* whole discard pile went back into it and the hand was completed from it
C30_Witness ==
    /\ turn_count > 1
    /\ ~game_over
    /\ Len(hand) = HAND_LIMIT
    /\ discard_pile = <<>>
    /\ Len(draw_pile) = Len(deck_blueprint) - HAND_LIMIT
    /\ last = Did(-1, 2)

\* only the value of the dice in `targets` may differ, each being face[old value] now;
\* HP, block and the freeze counters are as before
OnlyDiceChanged(targets, face) ==
    /\ \A i \in DieIndex :
          /\ dice'[i].frozen = dice[i].frozen
          /\ dice'[i].value = IF i \in targets THEN face[dice[i].value] ELSE dice[i].value
    /\ UNCHANGED << player_hp, enemy_hp, player_block, enemy_block >>

\* what clone, mirror, tinker and tinker_plus do when they resolve over selection sel
DiceEffectApplied(effect, sel) ==
    LET copied == [v \in Faces |-> dice[sel[1]].value]
        mirrored == [v \in Faces |-> 7 - v]
        tinkered == [v \in Faces |-> Min(6, v + 1)]
        boosted == [v \in Faces |-> Min(6, v + 2)]
    IN /\ effect = "clone" => OnlyDiceChanged({sel[2]}, copied)
       /\ effect = "mirror" => OnlyDiceChanged(Range(sel), mirrored)
       /\ effect = "tinker" => OnlyDiceChanged(Range(sel), tinkered)
       /\ effect = "tinker_plus" => OnlyDiceChanged(Range(sel), boosted)

\* C31: the dice-manipulation effects change only the targeted dice.  clone sets
\* dice[sel[1]] to the value of dice[sel[0]]; mirror replaces the value v of each selected
\* die by 7 - v, tinker by min(6, v + 1), tinker_plus by min(6, v + 2); the other dice keep
\* their values, and HP, block and freeze counters are unchanged.  The card resolves by
\* the confirm button over the selection made, or by the die click that completes a
\* single-select selection.
C31_DiceEffectsTouchTargetsOnly ==
    [][ (pending_card # None /\ pending_card' = None) =>
            LET effect == CardEffect(cards[pending_card.card])
            IN /\ ConfirmPendingSelection =>
                      DiceEffectApplied(effect, pending_card.selected)
               /\ \A index \in DieIndex :
                      DieClicked(index) =>
                          DiceEffectApplied(effect, Append(pending_card.selected, index)) ]_vars

\* tinker_plus has resolved over the first two dice, which showed 4 and 6: both show 6
\* now and the third die still shows its 5
C31_Witness ==
    /\ plays = 1
    /\ pending_card = None
    /\ discard_pile # <<>>
    /\ cards[discard_pile[Len(discard_pile)]] = "tinker_plus"
    /\ last = Did(-1, 2)
    /\ dice[0].value = 6
    /\ dice[1].value = 6
    /\ dice[2].value = 5
    /\ player_hp = PLAYER_MAX_HP

\* a card without targets has just been played: card c went from the hand to the top of
\* the discard pile
PlayedAtOnce(c) ==
    /\ pending_card = None
    /\ pending_card' = None
    /\ InSeq(c, hand)
    /\ ~InSeq(c, hand')
    /\ discard_pile' = Append(discard_pile, c)

\* the sum of the values of the five dice that are in keep
SumOfDice(keep) ==
    LET v(i) == IF dice[i].value \in keep THEN dice[i].value ELSE 0
    IN v(0) + v(1) + v(2) + v(3) + v(4)

\* the number of dice that show face f
DiceShowing(f) == Cardinality({ i \in DieIndex : dice[i].value = f })

SomePair == \E i, j \in DieIndex : i # j /\ dice[i].value = dice[j].value

\* the damage of an attack effect on the current dice, before the enemy's block
AttackDamage(effect) ==
    LET any == Faces
        odd == { v \in Faces : v % 2 = 1 }
    IN CASE effect = "odd_attack"     -> SumOfDice(odd)
         [] effect = "strike"         -> SumOfDice(any)
         [] effect = "strike_plus"    -> SumOfDice(any) + 6
         [] effect = "one_shot"       -> 15 * DiceShowing(1)
         [] effect = "one_shot_plus"  -> 20 * DiceShowing(1)
         [] effect = "pair_shot"      -> IF SomePair THEN 15 ELSE 0
         [] effect = "pair_shot_plus" -> IF SomePair THEN 25 ELSE 0

AttackEffects ==
    { "odd_attack", "strike", "strike_plus", "one_shot", "one_shot_plus", "pair_shot",
      "pair_shot_plus" }

\* C32: for every assignment of the 5 dice the attack effects deal, before block
\* absorption: odd_attack the sum of the odd-valued dice, strike the sum of all dice,
\* strike_plus that sum + 6, one_shot 15 and one_shot_plus 20 for each die showing 1,
\* pair_shot 15 and pair_shot_plus 25 if some face appears at least twice, else 0.  The
\* enemy's block absorbs first, and no die and no player_block changes.
C32_AttackDamage ==
    [][ \A c \in Range(hand) :
            (CardEffect(cards[c]) \in AttackEffects /\ PlayedAtOnce(c)) =>
                LET amount == AttackDamage(CardEffect(cards[c]))
                    blocked == Min(amount, enemy_block)
                IN /\ last'.amount \in {amount, -1}
                   /\ last'.amount = -1 => amount = 0
                   /\ enemy_block' = enemy_block - blocked
                   /\ enemy_hp' = enemy_hp - (amount - blocked)
                   /\ dice' = dice
                   /\ player_block' = player_block
                   /\ player_hp' = player_hp ]_vars

\* odd_attack has been played on five dice showing 1 and has dealt 5 damage
C32_Witness ==
    /\ plays = 1
    /\ discard_pile # <<>>
    /\ cards[discard_pile[Len(discard_pile)]] = "odd_attack"
    /\ \A i \in DieIndex : dice[i].value = 1
    /\ last.amount = 5
    /\ enemy_hp = ENEMY_MAX_HP - 5

\* the block a block effect grants on the current dice
BlockGranted(effect) ==
    LET any == Faces
        even == { v \in Faces : v % 2 = 0 }
    IN CASE effect = "even_shield"       -> SumOfDice(even)
         [] effect = "fortify"           -> SumOfDice(any)
         [] effect = "fortify_plus"      -> SumOfDice(any) + 6
         [] effect = "double_guard"      -> 10 * DiceShowing(2)
         [] effect = "double_guard_plus" -> 12 * DiceShowing(2)

BlockEffects ==
    { "even_shield", "fortify", "fortify_plus", "double_guard", "double_guard_plus" }

\* C33: for every assignment of the 5 dice the block effects add to player_block:
\* even_shield the sum of the even-valued dice, fortify the sum of all dice, fortify_plus
\* that sum + 6, double_guard 10 and double_guard_plus 12 for each die showing 2; dice,
\* HP and enemy block are unchanged.
C33_BlockGranted ==
    [][ \A c \in Range(hand) :
            (CardEffect(cards[c]) \in BlockEffects /\ PlayedAtOnce(c)) =>
                /\ player_block' = player_block + BlockGranted(CardEffect(cards[c]))
                /\ last'.amount = -1
                /\ UNCHANGED << dice, player_hp, enemy_hp, enemy_block >> ]_vars

\* double_guard_plus has been played on dice of which exactly three show 2 and has
\* granted 36 block
C33_Witness ==
    /\ plays = 1
    /\ discard_pile # <<>>
    /\ cards[discard_pile[Len(discard_pile)]] = "double_guard_plus"
    /\ Cardinality({ i \in DieIndex : dice[i].value = 2 }) = 3
    /\ player_block = 36
    /\ enemy_hp = ENEMY_MAX_HP

\* calls of resolve_card_effect that find nothing to do: clone with fewer than two
\* indices, a per-die effect with no index, an effect id without a branch
IdleCalls ==
    { << "clone", sel >> : sel \in {<<>>} \cup { << i >> : i \in DieIndex } }
        \cup { << effect, <<>> >> : effect \in PerDieEffects }
        \cup { << "unknown_plus", sel >> : sel \in { <<>>, <<0>>, <<0, 1>> } }

\* C34: resolving clone with fewer than 2 selected indices, mirror, stasis, tinker or
\* reroll (and their "_plus" kinds) with an empty selection, or a card whose effect id
\* is not handled, changes no die value, no freeze counter, no HP and no block: on every
\* board the combat reaches, resolve_card_effect returns the board as it was, with one
\* more log line.
C34_IdleCallsChangeNothing ==
    \A call \in IdleCalls :
        LET b == resolve_card_effect(CurrentBoard, call[1], call[2], <<>>)
        IN /\ b.dice = dice
           /\ b.player_block = player_block
           /\ b.enemy_hp = enemy_hp
           /\ b.enemy_block = enemy_block
           /\ b.amount = -1
           /\ b.logs = 1

\* a board with a frozen die and a first die not showing 1, on which clone over one
\* index only logs
C34_Witness ==
    /\ \E i \in DieIndex : dice[i].frozen > 0
    /\ dice[0].value # 1
    /\ resolve_card_effect(CurrentBoard, "clone", <<0>>, <<>>) =
           [CurrentBoard EXCEPT !.logs = 1]

\* C35: victory and defeat exclude each other within one combat and the combat never
\* goes on with a dead player: player_hp <= 0 implies game_over, enemy_hp <= 0 and
\* player_hp <= 0 never hold together, player_hp never exceeds 40 and enemy_hp never
\* exceeds 50, and neither grows except when a combat is reset.
C35_OneOutcomePerCombat ==
    /\ [](/\ player_hp <= 0 => game_over
          /\ ~(enemy_hp <= 0 /\ player_hp <= 0)
          /\ player_hp <= PLAYER_MAX_HP
          /\ enemy_hp <= ENEMY_MAX_HP)
    /\ [][ \/ player_hp' <= player_hp /\ enemy_hp' <= enemy_hp
           \/ ResetCombat
           \/ StartNextCombat ]_vars

\* the player has died in a combat in which the enemy was hurt and lives
C35_Witness ==
    /\ game_over
    /\ player_hp <= 0
    /\ enemy_hp > 0
    /\ enemy_hp < ENEMY_MAX_HP
    /\ scene = "main"

\* the per-die effect `effect` was applied once to each die of selection sel and to no
\* other die: one log line for each selected die
AppliedOncePerDie(effect, sel) ==
    /\ last'.logs = Cardinality(Range(sel))
    /\ DiceEffectApplied(effect, sel)
    /\ \A i \in DieIndex \ Range(sel) : dice'[i] = dice[i]
    /\ effect = "stasis" =>
          \A i \in Range(sel) :
              dice'[i] = [dice[i] EXCEPT !.frozen = IF @ > 1 THEN @ ELSE 1]
    /\ effect \in {"reroll", "reroll_plus"} =>
          \A i \in Range(sel) :
              /\ dice'[i].value \in Faces
              /\ dice'[i].frozen = dice[i].frozen

\* C37: in multi-select mode the selected list never holds an index twice and every
\* selected index is in 0..4, so its length is at most 5, and a confirmed mirror, stasis,
\* tinker or reroll is applied to each selected die exactly once.
C37_MultiSelectionIsASet ==
    /\ [](pending_card # None /\ pending_card.allow_multi_select =>
             /\ Cardinality(Range(pending_card.selected)) = Len(pending_card.selected)
             /\ Range(pending_card.selected) \subseteq 0 .. 4
             /\ Len(pending_card.selected) <= 5)
    /\ [][ (pending_card # None /\ pending_card' = None /\ ConfirmPendingSelection) =>
               /\ pending_card.allow_multi_select
               /\ AppliedOncePerDie(CardEffect(cards[pending_card.card]),
                                    pending_card.selected) ]_vars

\* mirror has been confirmed over the first two dice, which both showed 6: each shows 1
\* now, with one log line for each
C37_Witness ==
    /\ plays = 1
    /\ pending_card = None
    /\ discard_pile # <<>>
    /\ cards[discard_pile[Len(discard_pile)]] = "mirror"
    /\ last = Did(-1, 2)
    /\ dice[0].value = 1
    /\ dice[1].value = 1
    /\ dice[2].value = 5

\* the selections a pending card still needs before it can resolve
SelectionsLeft(pending) ==
    IF pending.allow_multi_select
    THEN IF has_minimum_selection(pending) THEN 0
         ELSE Max(pending.required, 1) - Len(pending.selected)
    ELSE pending.required - Len(pending.selected)

\* this step resolves the pending card: it goes to the discard pile, no selection is
\* pending and the game is not over, so that end_turn is accepted again
ResolvesPending ==
    /\ pending_card' = None
    /\ ~game_over'
    /\ discard_pile' = Append(discard_pile, pending_card.card)

\* a step towards resolution can be taken: a confirm that resolves a multi-selection
\* holding enough dice, a die click that completes a single selection, or a die click
\* that brings the selection one die nearer
CanAdvance ==
    IF pending_card.allow_multi_select /\ SelectionsLeft(pending_card) = 0
    THEN ENABLED (ConfirmPendingSelection /\ ResolvesPending)
    ELSE IF ~pending_card.allow_multi_select /\ SelectionsLeft(pending_card) = 1
    THEN ENABLED (\E index \in DieIndex : DieClicked(index) /\ ResolvesPending)
    ELSE /\ SelectionsLeft(pending_card) > 0
         /\ ENABLED (\E index \in DieIndex :
                        /\ DieClicked(index)
                        /\ pending_card' # None
                        /\ SelectionsLeft(pending_card') =
                               SelectionsLeft(pending_card) - 1)

Selecting == pending_card # None /\ ~game_over

\* a press of Confirm that resolves the pending card is taken if it is possible again
\* and again
ConfirmWhileSelected == SF_vars(ConfirmPendingSelection /\ pending_card' = None)

\* C36 (as stated): under fair delivery of die clicks and confirms a pending selection
\* eventually resolves.
C36_FairDeliveryResolves == Selecting ~> (pending_card = None)

\* C36: a pending selection never dead-locks the turn: from every state with a selection
\* pending and the game not over a step towards resolution can be taken, and finitely
\* many of them (die clicks, then a confirm in multi-select mode) resolve the card, clear
\* the pending selection and re-enable end_turn.  Under fair delivery of die clicks a
\* single selection eventually ends (resolved, or dropped by reset_combat); a
\* multi-selection eventually ends if moreover a confirm is delivered at some moment when
\* enough dice are selected, which fair delivery alone does not ensure: a click on a
\* selected die deselects it and a confirm of an empty selection is refused.
C36_PendingSelectionCanResolve ==
    /\ [](Selecting => CanAdvance)
    /\ (Selecting /\ ~pending_card.allow_multi_select) ~> (pending_card = None)
    /\ ConfirmWhileSelected =>
           ((Selecting /\ pending_card.allow_multi_select) ~> (pending_card = None))

\* reroll_plus has been confirmed over two dice and lies on the discard pile: no
\* selection is pending and the game goes on
C36_Witness ==
    /\ plays = 1
    /\ pending_card = None
    /\ ~game_over
    /\ discard_pile # <<>>
    /\ cards[discard_pile[Len(discard_pile)]] = PlusKey("reroll")
    /\ last.logs = 2

====
